---- MODULE Spec2Model ----
(***************************************************************************)
(* Best-Fit backend: colour mathematics (ColorHarmonyService,              *)
(* ColorExtractionService.color_distance) and the outfit generator         *)
(* (OutfitGeneratorService), as state machines over bounded inputs.        *)
(*                                                                         *)
(* Numbers.  The Python code computes in IEEE doubles.  The model computes *)
(* the same expressions in exact rational arithmetic (records [n, d] in    *)
(* lowest terms, d > 0).  The one place where the double's rounding error  *)
(* is observable is int(x * 255) in hsl_to_rgb: int() truncates, and a     *)
(* double whose exact value is the integer k may sit just below k, so the  *)
(* result is k or k-1; the model keeps both outcomes.                      *)
(* Scores (harmony, style) are whole numbers in the code's float variables;*)
(* the rounded scores of a suggestion are kept in hundredths.              *)
(***************************************************************************)
EXTENDS Integers, Sequences, FiniteSets, TLC

VARIABLES
    colors,     \* argument list of the colour function under call
    out,        \* what the last colour-function call returned
    closet,     \* StorageService: clothing.json, in insertion order
    request,    \* arguments of the last generate_outfit_suggestions call
    all_items,  \* its all_items when it groups them by category
    generated,  \* its suggestions list as generated (before the sort)
    ranked,     \* its suggestions list after suggestions.sort(...)
    response,   \* the list it returned
    scored,     \* last call of a scoring method of OutfitGeneratorService
    extraction, \* last call of extract_colors / extract_colors_from_bytes
    http,       \* last request to a colour or outfit endpoint and its answer
    color_cache, \* ColorExtractionService.color_cache of the shared service
    lookups,    \* each caller of get_color_name: where in the method it is
    uploads     \* the files of the uploads directory

vars == <<colors, out, closet, request, all_items, generated, ranked, response,
          scored, extraction, http, color_cache, lookups, uploads>>

None == "None"

(***************************************************************************)
(* Bounds                                                                  *)
(***************************************************************************)
MaxColors == 3
MaxClashColors == 6
MaxCloset == 2
MaxSuggestionsBound == 3
MaxStyled == 3
MaxLongStyled == 7
MaxWorn == 3
MaxNumColors == 3
MaxHashes == 2
MaxExtra == 2
MaxPosted == 3
MaxCallers == 2

(***************************************************************************)
(* Python float arithmetic, exact: rationals in lowest terms               *)
(***************************************************************************)
Abs(x) == IF x < 0 THEN -x ELSE x

Min2(a, b) == IF a <= b THEN a ELSE b

Max2(a, b) == IF a >= b THEN a ELSE b

RECURSIVE GCD(_, _)
GCD(a, b) == IF b = 0 THEN a ELSE GCD(b, a % b)

Rat(n, d) ==
    LET g == GCD(Abs(n), Abs(d))
        s == IF d < 0 THEN -1 ELSE 1
    IN  [n |-> s * (n \div g), d |-> s * (d \div g)]

RInt(k) == [n |-> k, d |-> 1]

RAdd(a, b) ==
    LET g == GCD(a.d, b.d)
    IN  Rat(a.n * (b.d \div g) + b.n * (a.d \div g), (a.d \div g) * b.d)

RNeg(a) == [n |-> -a.n, d |-> a.d]

RSub(a, b) == RAdd(a, RNeg(b))

RMul(a, b) ==
    LET g1 == GCD(Abs(a.n), b.d)
        g2 == GCD(Abs(b.n), a.d)
    IN  [n |-> (a.n \div g1) * (b.n \div g2), d |-> (a.d \div g2) * (b.d \div g1)]

RDiv(a, b) == RMul(a, Rat(b.d, b.n))

RLe(a, b) ==
    LET g == GCD(a.d, b.d) IN a.n * (b.d \div g) <= b.n * (a.d \div g)

RLt(a, b) == ~RLe(b, a)

RAbs(a) == [n |-> Abs(a.n), d |-> a.d]

\* Python's x % m for a positive integer m (result in [0, m))
RMod(a, m) == [n |-> a.n % (m * a.d), d |-> a.d]

RFloor(a) == a.n \div a.d

(***************************************************************************)
(* ColorExtractionService.color_distance                                   *)
(***************************************************************************)
\* The radicand of the source's math.sqrt(...), times 512:
\*   (2 + rmean/256)*dr^2 + 4*dg^2 + (2 + (255-rmean)/256)*db^2,  rmean = (r1+r2)/2
\* color_distance as the exact square of the value returned, times 512.
\* sqrt is strictly increasing on these values and sqrt(0) = 0, so zero tests
\* and comparisons of distances are those of the radicands.
color_distance_r1(c1, c2) ==
    LET dr == c1[1] - c2[1]
        dg == c1[2] - c2[2]
        db == c1[3] - c2[3]
    IN  (1024 + 2 * c1[1]) * dr * dr
        + 2048 * dg * dg
        + (1024 + 510 - 2 * c1[1]) * db * db

color_distance(c1, c2) ==
    LET rsum == c1[1] + c2[1]
        dr == c1[1] - c2[1]
        dg == c1[2] - c2[2]
        db == c1[3] - c2[3]
    IN  (1024 + rsum) * dr * dr
        + 2048 * dg * dg
        + (1024 + 510 - rsum) * db * db

(***************************************************************************)
(* colorsys.rgb_to_hls / hls_to_rgb as ColorHarmonyService calls them      *)
(***************************************************************************)
\* colorsys.rgb_to_hls(r, g, b) on rationals; returns <<h, l, s>>
\* (the body after maxc and minc are known)
rgb_to_hls_of(r, g, b, maxc, minc) ==
    LET sumc == RAdd(maxc, minc)
        rangec == RSub(maxc, minc)
        l == RDiv(sumc, RInt(2))
    IN  IF minc = maxc THEN <<RInt(0), l, RInt(0)>>
        ELSE
          LET s == IF RLe(l, Rat(1, 2)) THEN RDiv(rangec, sumc)
                   ELSE RDiv(rangec, RSub(RSub(RInt(2), maxc), minc))
              rc == RDiv(RSub(maxc, r), rangec)
              gc == RDiv(RSub(maxc, g), rangec)
              bc == RDiv(RSub(maxc, b), rangec)
              h0 == IF r = maxc THEN RSub(bc, gc)
                    ELSE IF g = maxc THEN RAdd(RInt(2), RSub(rc, bc))
                    ELSE RAdd(RInt(4), RSub(gc, rc))
              h == RMod(RDiv(h0, RInt(6)), 1)
          IN  <<h, l, s>>

rgb_to_hls(r, g, b) ==
    rgb_to_hls_of(r, g, b,
        IF RLe(g, r) /\ RLe(b, r) THEN r ELSE IF RLe(b, g) THEN g ELSE b,
        IF RLe(r, g) /\ RLe(r, b) THEN r ELSE IF RLe(g, b) THEN g ELSE b)

\* colorsys._v(m1, m2, hue)
hls_v(m1, m2, hue0) ==
    LET hue == RMod(hue0, 1)
    IN  IF RLt(hue, Rat(1, 6))
          THEN RAdd(m1, RMul(RMul(RSub(m2, m1), hue), RInt(6)))
        ELSE IF RLt(hue, Rat(1, 2)) THEN m2
        ELSE IF RLt(hue, Rat(2, 3))
          THEN RAdd(m1, RMul(RMul(RSub(m2, m1), RSub(Rat(2, 3), hue)), RInt(6)))
        ELSE m1

\* colorsys.hls_to_rgb(h, l, s); returns <<r, g, b>> as rationals in [0, 1]
hls_to_rgb(h, l, s) ==
    IF s = RInt(0) THEN <<l, l, l>>
    ELSE
      LET m2 == IF RLe(l, Rat(1, 2)) THEN RMul(l, RAdd(RInt(1), s))
                ELSE RSub(RAdd(l, s), RMul(l, s))
          m1 == RSub(RMul(RInt(2), l), m2)
      IN  <<hls_v(m1, m2, RAdd(h, Rat(1, 3))),
            hls_v(m1, m2, h),
            hls_v(m1, m2, RSub(h, Rat(1, 3)))>>

(***************************************************************************)
(* ColorHarmonyService                                                     *)
(***************************************************************************)
\* rgb_to_hsl(rgb) = <<hue in degrees, saturation %, lightness %>>
hsl_of_hls(hls) ==
    <<RMul(hls[1], RInt(360)), RMul(hls[3], RInt(100)), RMul(hls[2], RInt(100))>>

rgb_to_hsl(rgb) ==
    hsl_of_hls(rgb_to_hls(Rat(rgb[1], 255), Rat(rgb[2], 255), Rat(rgb[3], 255)))

\* int(x) of a double x >= 0 whose exact value is the rational a: the outcomes.
\* Where a is a whole number k >= 1 the double is k up to rounding error, so
\* truncation gives k or k-1; elsewhere it gives the floor.
int_trunc(a) ==
    IF a.d = 1 /\ a.n >= 1 THEN {a.n, a.n - 1} ELSE {RFloor(a)}

\* hsl_to_rgb(hsl): the set of integer triples the call can return
hsl_to_rgb_swapped(hsl) ==
    LET f == hls_to_rgb(RDiv(hsl[1], RInt(360)),
                        RDiv(hsl[2], RInt(100)),
                        RDiv(hsl[3], RInt(100)))
    IN  { <<r, g, b>> : r \in int_trunc(RMul(f[1], RInt(255))),
                        g \in int_trunc(RMul(f[2], RInt(255))),
                        b \in int_trunc(RMul(f[3], RInt(255))) }

hsl_to_rgb(hsl) ==
    LET f == hls_to_rgb(RDiv(hsl[1], RInt(360)),
                        RDiv(hsl[3], RInt(100)),
                        RDiv(hsl[2], RInt(100)))
    IN  { <<r, g, b>> : r \in int_trunc(RMul(f[1], RInt(255))),
                        g \in int_trunc(RMul(f[2], RInt(255))),
                        b \in int_trunc(RMul(f[3], RInt(255))) }

\* get_complementary(rgb): the set of triples the call can return
get_complementary(rgb) ==
    LET hsl == rgb_to_hsl(rgb)
        new_h == RMod(RAdd(hsl[1], RInt(180)), 360)
    IN  hsl_to_rgb(<<new_h, hsl[2], hsl[3]>>)

\* hsl_to_rgb of rgb's colour with its hue moved by offset degrees
shifted_hue(rgb, offset) ==
    hsl_to_rgb(<<RMod(RAdd(rgb_to_hsl(rgb)[1], RInt(offset)), 360),
                 rgb_to_hsl(rgb)[2], rgb_to_hsl(rgb)[3]>>)

\* get_analogous(rgb): the lists the call can return
get_analogous(rgb) ==
    { <<a, b>> : a \in shifted_hue(rgb, -30), b \in shifted_hue(rgb, 30) }

\* get_triadic(rgb): the lists the call can return
get_triadic(rgb) ==
    { <<a, b>> : a \in shifted_hue(rgb, 120), b \in shifted_hue(rgb, 240) }

\* h_diff of two hues in degrees, as both calculate_harmony_score and
\* colors_match compute it
hue_diff(h1, h2) ==
    LET d == RAbs(RSub(h1, h2))
    IN  IF RLt(RInt(180), d) THEN RSub(RInt(360), d) ELSE d

\* the if/elif chain of calculate_harmony_score for one pair
pair_adjust_narrow(h_diff) ==
    IF RLe(RInt(165), h_diff) /\ RLe(h_diff, RInt(195)) THEN 10
    ELSE IF RLe(h_diff, RInt(45)) THEN 5
    ELSE IF RLe(RInt(105), h_diff) /\ RLe(h_diff, RInt(135)) THEN 8
    ELSE IF RLe(RInt(75), h_diff) /\ RLe(h_diff, RInt(90)) THEN -15
    ELSE 0

pair_adjust(h_diff) ==
    IF RLe(RInt(165), h_diff) /\ RLe(h_diff, RInt(195)) THEN 10
    ELSE IF RLe(h_diff, RInt(45)) THEN 5
    ELSE IF RLe(RInt(105), h_diff) /\ RLe(h_diff, RInt(135)) THEN 8
    ELSE IF RLe(RInt(60), h_diff) /\ RLe(h_diff, RInt(90)) THEN -15
    ELSE 0

\* (neighbours in the list only)
RECURSIVE harmony_loop_neighbours(_, _, _, _)
harmony_loop_neighbours(hsl_colors, i, j, score) ==
    IF i >= Len(hsl_colors) THEN score
    ELSE harmony_loop_neighbours(hsl_colors, i + 1, i + 2,
             score + pair_adjust(hue_diff(hsl_colors[i][1], hsl_colors[i + 1][1])))

\* the two nested loops: score after pairs (i, j), (i, j+1), ..., (i+1, i+2), ...
RECURSIVE harmony_loop(_, _, _, _)
harmony_loop(hsl_colors, i, j, score) ==
    IF i > Len(hsl_colors) THEN score
    ELSE IF j > Len(hsl_colors) THEN harmony_loop(hsl_colors, i + 1, i + 2, score)
    ELSE harmony_loop(hsl_colors, i, j + 1,
             score + pair_adjust(hue_diff(hsl_colors[i][1], hsl_colors[j][1])))

calculate_harmony_score_zero(cs) ==
    IF Len(cs) < 2 THEN 0
    ELSE
      LET hsl_colors == [k \in 1..Len(cs) |-> rgb_to_hsl(cs[k])]
      IN  Max2(0, Min2(100, harmony_loop(hsl_colors, 1, 2, 100)))

calculate_harmony_score(cs) ==
    IF Len(cs) < 2 THEN 100
    ELSE
      LET hsl_colors == [k \in 1..Len(cs) |-> rgb_to_hsl(cs[k])]
      IN  Max2(0, Min2(100, harmony_loop(hsl_colors, 1, 2, 100)))

\* the default of colors_match's tolerance parameter
DefaultTolerance == 30

colors_match_tol(rgb1, rgb2, scheme, tolerance) ==
    LET h_diff == hue_diff(rgb_to_hsl(rgb1)[1], rgb_to_hsl(rgb2)[1])
    IN  IF scheme = "complementary"
          THEN RLe(RAbs(RSub(h_diff, RInt(180))), RInt(tolerance))
        ELSE IF scheme = "analogous" THEN RLe(h_diff, RInt(tolerance))
        ELSE IF scheme = "triadic"
          THEN \/ RLe(RAbs(RSub(h_diff, RInt(120))), RInt(tolerance))
               \/ RLe(RAbs(RSub(h_diff, RInt(240))), RInt(tolerance))
        ELSE IF scheme = "monochromatic" THEN RLe(h_diff, RInt(tolerance))
        ELSE TRUE

colors_match(rgb1, rgb2, scheme, tolerance) ==
    LET h_diff == hue_diff(rgb_to_hsl(rgb1)[1], rgb_to_hsl(rgb2)[1])
    IN  IF scheme = "complementary"
          THEN RLe(RAbs(RSub(h_diff, RInt(180))), RInt(tolerance))
        ELSE IF scheme = "analogous" THEN RLe(h_diff, RInt(tolerance))
        ELSE IF scheme = "triadic"
          THEN \/ RLe(RAbs(RSub(h_diff, RInt(120))), RInt(tolerance))
               \/ RLe(RAbs(RSub(h_diff, RInt(240))), RInt(tolerance))
        ELSE IF scheme = "monochromatic" THEN RLe(h_diff, RInt(15))
        ELSE TRUE

(***************************************************************************)
(* OutfitGeneratorService                                                  *)
(***************************************************************************)
OUTFIT_COMBINATIONS ==
    << <<"top", "bottom">>,
       <<"top", "bottom", "shoes">>,
       <<"top", "bottom", "outerwear">>,
       <<"top", "bottom", "outerwear", "shoes">>,
       <<"dress">>,
       <<"dress", "shoes">>,
       <<"dress", "outerwear">>,
       <<"dress", "outerwear", "shoes">> >>

ClothingCategory == {"top", "bottom", "dress", "outerwear", "shoes", "accessory"}

ClothingStyle ==
    {"casual", "formal", "sporty", "business", "evening", "bohemian",
     "streetwear", "vintage"}

Range(s) == { s[i] : i \in 1..Len(s) }

RECURSIVE Concat(_)
Concat(ss) == IF ss = <<>> THEN <<>> ELSE Head(ss) \o Concat(Tail(ss))

\* A garment is a record [id, category, style, dominant_colors], the last a
\* sequence of RGB triples (ColorInfo.rgb), most dominant first.
get_dominant_rgb(item) ==
    IF item.dominant_colors = <<>> THEN None ELSE item.dominant_colors[1]

\* (a garment without colours counted as black)
RECURSIVE dominant_colors_or_black(_)
dominant_colors_or_black(items) ==
    IF items = <<>> THEN <<>>
    ELSE <<IF get_dominant_rgb(Head(items)) # None
             THEN get_dominant_rgb(Head(items)) ELSE <<0, 0, 0>> >>
         \o dominant_colors_or_black(Tail(items))

\* the colors list built by the loop of calculate_outfit_harmony
RECURSIVE dominant_colors_of(_)
dominant_colors_of(items) ==
    IF items = <<>> THEN <<>>
    ELSE (IF get_dominant_rgb(Head(items)) # None
            THEN <<get_dominant_rgb(Head(items))>> ELSE <<>>)
         \o dominant_colors_of(Tail(items))

harmony_of_colors(cs) ==
    IF Len(cs) < 2 THEN 100 ELSE calculate_harmony_score(cs)

calculate_outfit_harmony(items) == harmony_of_colors(dominant_colors_of(items))

compatible_pairs ==
    { <<"casual", "streetwear">>, <<"formal", "business">>,
      <<"evening", "formal">>, <<"bohemian", "casual">>,
      <<"sporty", "casual">>, <<"vintage", "bohemian">> }

\* (the table looked up as (s1, s2) only)
RECURSIVE style_loop_ordered(_, _, _)
style_loop_ordered(styles, i, score) ==
    IF i >= Len(styles) THEN score
    ELSE style_loop_ordered(styles, i + 1,
            IF styles[i] = styles[i + 1] THEN score + 10
            ELSE IF <<styles[i], styles[i + 1]>> \in compatible_pairs
                   THEN score + 5
            ELSE score - 10)

\* the zip(styles, styles[1:]) loop, from pair i on
RECURSIVE style_loop(_, _, _)
style_loop(styles, i, score) ==
    IF i >= Len(styles) THEN score
    ELSE style_loop(styles, i + 1,
            IF styles[i] = styles[i + 1] THEN score + 10
            ELSE IF \/ <<styles[i], styles[i + 1]>> \in compatible_pairs
                    \/ <<styles[i + 1], styles[i]>> \in compatible_pairs
                   THEN score + 5
            ELSE score - 10)

\* (without the shortcut for a single style)
check_style_compatibility_loop_only(items) ==
    IF items = <<>> THEN 0
    ELSE
      LET styles == [i \in 1..Len(items) |-> items[i].style]
      IN  Max2(0, Min2(100, style_loop(styles, 1, 50)))

check_style_compatibility(items) ==
    IF items = <<>> THEN 0
    ELSE
      LET styles == [i \in 1..Len(items) |-> items[i].style]
      IN  IF Cardinality(Range(styles)) = 1 THEN 100
          ELSE Max2(0, Min2(100, style_loop(styles, 1, 50)))

\* dict.get(key, default) on a request item
Get(d, key, default) == IF key \in DOMAIN d THEN d[key] ELSE default

_convert_items_from_request(items_data) ==
    [i \in 1..Len(items_data) |->
        [id |-> Get(items_data[i], "id", ""),
         category |-> Get(items_data[i], "category", "top"),
         style |-> Get(items_data[i], "style", "casual"),
         dominant_colors |-> Get(items_data[i], "dominant_colors", <<>>)]]

\* (the filter without its fallback)
style_filter_only(item_list, style) ==
    IF style = None THEN item_list
    ELSE SelectSeq(item_list, LAMBDA item : item.style = style)

\* lines 142-145: the style filter and its fallback
style_filter(item_list, style) ==
    IF style = None THEN item_list
    ELSE LET filtered_items == SelectSeq(item_list, LAMBDA item : item.style = style)
         IN  IF filtered_items # <<>> THEN filtered_items ELSE item_list

\* lines 148-152: dict from each category present to its items, in list order
group_by_category(item_list) ==
    [cat \in { item_list[i].category : i \in 1..Len(item_list) } |->
        SelectSeq(item_list, LAMBDA item : item.category = cat)]

\* itertools.product(*category_options): tuples in lexicographic index order,
\* the last position varying fastest
prepend_each(first, rest) ==
    Concat([i \in 1..Len(first) |->
              [j \in 1..Len(rest) |-> <<first[i]>> \o rest[j]]])

\* zip-like: only the first option of every category
product_heads(category_options) ==
    << [i \in 1..Len(category_options) |-> category_options[i][1]] >>

RECURSIVE product(_)
product(category_options) ==
    IF category_options = <<>> THEN << <<>> >>
    ELSE prepend_each(Head(category_options), product(Tail(category_options)))

\* the weighted sum of lines 221 and 264, in hundredths
total_score_swapped(harmony_score, style_score) ==
    40 * harmony_score + 60 * style_score

total_score_of(harmony_score, style_score) ==
    60 * harmony_score + 40 * style_score

\* the dict appended to suggestions; the three scores are round(x, 2), kept
\* in hundredths
suggestion_of(outfit_items, harmony_score, style_score, pattern) ==
    [items |-> outfit_items,
     color_harmony_score |-> 100 * harmony_score,
     style_compatibility_score |-> 100 * style_score,
     total_score |-> total_score_of(harmony_score, style_score),
     pattern |-> pattern]

suggestion(outfit_items, pattern) ==
    suggestion_of(outfit_items, calculate_outfit_harmony(outfit_items),
                  check_style_compatibility(outfit_items), pattern)

\* (the colours of positions 0 and 1 only)
scheme_rejects_positions(outfit_items, color_scheme) ==
    /\ color_scheme # None
    /\ Len(outfit_items) >= 2
    /\ IF get_dominant_rgb(outfit_items[1]) # None
          /\ get_dominant_rgb(outfit_items[2]) # None
         THEN ~colors_match(get_dominant_rgb(outfit_items[1]),
                            get_dominant_rgb(outfit_items[2]),
                            color_scheme, DefaultTolerance)
         ELSE FALSE

\* lines 251-260: TRUE when the combination is skipped
scheme_rejects(outfit_items, color_scheme) ==
    /\ color_scheme # None
    /\ LET cs == dominant_colors_of(outfit_items)
       IN  /\ Len(cs) >= 2
           /\ ~colors_match(cs[1], cs[2], color_scheme, DefaultTolerance)

\* line 243
pattern_available(items_by_category, pattern) ==
    \A i \in 1..Len(pattern) : pattern[i] \in DOMAIN items_by_category

\* one suggestion per combination, in order
suggestions_for(combos, pattern) ==
    [k \in 1..Len(combos) |-> suggestion(combos[k], pattern)]

\* the body of the loop over OUTFIT_COMBINATIONS for one pattern
all_combinations_of(items_by_category, color_scheme, pattern) ==
    IF pattern_available(items_by_category, pattern)
      THEN suggestions_for(
             SelectSeq(product([i \in 1..Len(pattern) |-> items_by_category[pattern[i]]]),
                       LAMBDA combo : ~scheme_rejects(combo, color_scheme)),
             pattern)
      ELSE <<>>

_generate_all_combinations(items_by_category, color_scheme) ==
    Concat([p \in 1..Len(OUTFIT_COMBINATIONS) |->
        all_combinations_of(items_by_category, color_scheme, OUTFIT_COMBINATIONS[p])])

\* (the options never narrowed)
options_for_unnarrowed(items_by_category, cat, base_rgb, color_scheme) ==
    items_by_category[cat]

\* lines 197-209: one category's options, narrowed by the colour scheme
options_for(items_by_category, cat, base_rgb, color_scheme) ==
    LET options == items_by_category[cat]
    IN  IF color_scheme # None /\ base_rgb # None
          THEN
            LET filtered == SelectSeq(options, LAMBDA item :
                    /\ get_dominant_rgb(item) # None
                    /\ colors_match(base_rgb, get_dominant_rgb(item),
                                    color_scheme, DefaultTolerance))
            IN  IF filtered # <<>> THEN filtered ELSE options
          ELSE options

\* (the base item last)
suggestions_after(base_item, combos, pattern) ==
    [k \in 1..Len(combos) |-> suggestion(combos[k] \o <<base_item>>, pattern)]

\* one suggestion per combination, the base item first
suggestions_around(base_item, combos, pattern) ==
    [k \in 1..Len(combos) |-> suggestion(<<base_item>> \o combos[k], pattern)]

\* lines 194-211: the options of the other categories that have items
category_options_of(items_by_category, present, base_rgb, color_scheme) ==
    [i \in 1..Len(present) |->
        options_for(items_by_category, present[i], base_rgb, color_scheme)]

\* the body of the loop over valid_patterns for one pattern
from_base_of(base_item, items_by_category, color_scheme, pattern, other_categories) ==
    LET present == SelectSeq(other_categories, LAMBDA c : c \in DOMAIN items_by_category)
    IN  IF Len(present) = Len(other_categories)
          THEN suggestions_around(base_item,
                  product(category_options_of(items_by_category, present,
                              get_dominant_rgb(base_item), color_scheme)),
                  pattern)
          ELSE <<>>

patterns_with(valid_patterns, base_item, items_by_category, color_scheme) ==
    Concat([p \in 1..Len(valid_patterns) |->
        from_base_of(base_item, items_by_category, color_scheme, valid_patterns[p],
            SelectSeq(valid_patterns[p], LAMBDA c : c # base_item.category))])

_generate_from_base(base_item, items_by_category, color_scheme) ==
    patterns_with(
        SelectSeq(OUTFIT_COMBINATIONS,
                  LAMBDA pattern : base_item.category \in Range(pattern)),
        base_item, items_by_category, color_scheme)

\* list.sort(key=total_score, reverse=True): stable, so equal keys keep their
\* order.  x goes behind every element whose key is >= its own.
RECURSIVE insert_desc(_, _)
insert_desc(sorted, x) ==
    IF sorted = <<>> THEN <<x>>
    ELSE IF Head(sorted).total_score >= x.total_score
           THEN <<Head(sorted)>> \o insert_desc(Tail(sorted), x)
    ELSE <<x>> \o sorted

RECURSIVE sort_from(_, _)
sort_from(sorted, todo) ==
    IF todo = <<>> THEN sorted
    ELSE sort_from(insert_desc(sorted, Head(todo)), Tail(todo))

\* a sort that puts equal keys in reverse order (sort ascending, then reverse)
RECURSIVE insert_before_equal(_, _)
insert_before_equal(sorted, x) ==
    IF sorted = <<>> THEN <<x>>
    ELSE IF Head(sorted).total_score > x.total_score
           THEN <<Head(sorted)>> \o insert_before_equal(Tail(sorted), x)
    ELSE <<x>> \o sorted

RECURSIVE sort_from_unstable(_, _)
sort_from_unstable(sorted, todo) ==
    IF todo = <<>> THEN sorted
    ELSE sort_from_unstable(insert_before_equal(sorted, Head(todo)), Tail(todo))

sort_by_total_score_unstable(suggestions) == sort_from_unstable(<<>>, suggestions)

sort_by_total_score(suggestions) == sort_from(<<>>, suggestions)

\* suggestions[:max_suggestions], max_suggestions >= 0
take_one_more(suggestions, max_suggestions) ==
    SubSeq(suggestions, 1, Min2(max_suggestions + 1, Len(suggestions)))

take(suggestions, max_suggestions) ==
    SubSeq(suggestions, 1, Min2(max_suggestions, Len(suggestions)))

\* lines 133-145: the garments the call works on
items_in_use(items, stored, style) ==
    LET item_list == IF items # None /\ items # <<>>
                       THEN _convert_items_from_request(items) ELSE stored
    IN  style_filter(item_list, style)

\* (open mode when the base item is not found)
suggestions_with_fallback(garments, items_by_category, base_item_id, color_scheme) ==
    IF base_item_id # None
         /\ SelectSeq(garments, LAMBDA item : item.id = base_item_id) # <<>>
      THEN _generate_from_base(
               Head(SelectSeq(garments, LAMBDA item : item.id = base_item_id)),
               items_by_category, color_scheme)
      ELSE _generate_all_combinations(items_by_category, color_scheme)

\* lines 154-167: the suggestions list before the sort
suggestions_with(garments, items_by_category, base_item_id, color_scheme) ==
    IF base_item_id # None
      THEN
        LET found == SelectSeq(garments, LAMBDA item : item.id = base_item_id)
        IN  IF found # <<>>
              THEN _generate_from_base(Head(found), items_by_category, color_scheme)
              ELSE <<>>
      ELSE _generate_all_combinations(items_by_category, color_scheme)

suggestions_of(garments, base_item_id, color_scheme) ==
    suggestions_with(garments, group_by_category(garments), base_item_id, color_scheme)

(***************************************************************************)
(* ColorExtractionService.get_color_name                                   *)
(*                                                                         *)
(* color_cache is a function from RGB triples to names.  webcolors is a    *)
(* library: rgb_to_name looks the triple up in its table of the CSS3       *)
(* colour names and raises ValueError when it is not there.                *)
(***************************************************************************)
\* the class attribute, in the order of the dict
EXTENDED_COLORS ==
    << <<<<0, 0, 0>>, "black">>,
       <<<<255, 255, 255>>, "white">>,
       <<<<128, 128, 128>>, "gray">>,
       <<<<192, 192, 192>>, "silver">>,
       <<<<255, 0, 0>>, "red">>,
       <<<<128, 0, 0>>, "maroon">>,
       <<<<255, 165, 0>>, "orange">>,
       <<<<255, 215, 0>>, "gold">>,
       <<<<255, 255, 0>>, "yellow">>,
       <<<<128, 128, 0>>, "olive">>,
       <<<<0, 255, 0>>, "lime">>,
       <<<<0, 128, 0>>, "green">>,
       <<<<0, 255, 255>>, "cyan">>,
       <<<<0, 128, 128>>, "teal">>,
       <<<<0, 0, 255>>, "blue">>,
       <<<<0, 0, 128>>, "navy">>,
       <<<<255, 0, 255>>, "magenta">>,
       <<<<128, 0, 128>>, "purple">>,
       <<<<255, 192, 203>>, "pink">>,
       <<<<165, 42, 42>>, "brown">>,
       <<<<245, 245, 220>>, "beige">>,
       <<<<210, 180, 140>>, "tan">>,
       <<<<255, 127, 80>>, "coral">>,
       <<<<75, 0, 130>>, "indigo">>,
       <<<<230, 230, 250>>, "lavender">>,
       <<<<245, 245, 245>>, "off-white">>,
       <<<<47, 79, 79>>, "dark slate">>,
       <<<<70, 130, 180>>, "steel blue">>,
       <<<<178, 34, 34>>, "firebrick">>,
       <<<<220, 20, 60>>, "crimson">>,
       <<<<255, 99, 71>>, "tomato">>,
       <<<<250, 128, 114>>, "salmon">>,
       <<<<255, 218, 185>>, "peach">>,
       <<<<240, 230, 140>>, "khaki">>,
       <<<<189, 183, 107>>, "dark khaki">>,
       <<<<144, 238, 144>>, "light green">>,
       <<<<34, 139, 34>>, "forest green">>,
       <<<<0, 100, 0>>, "dark green">>,
       <<<<143, 188, 143>>, "dark sea green">>,
       <<<<135, 206, 235>>, "sky blue">>,
       <<<<173, 216, 230>>, "light blue">>,
       <<<<100, 149, 237>>, "cornflower blue">>,
       <<<<65, 105, 225>>, "royal blue">>,
       <<<<25, 25, 112>>, "midnight blue">>,
       <<<<138, 43, 226>>, "blue violet">>,
       <<<<148, 0, 211>>, "dark violet">>,
       <<<<218, 112, 214>>, "orchid">>,
       <<<<255, 20, 147>>, "deep pink">>,
       <<<<199, 21, 133>>, "medium violet red">>,
       <<<<139, 69, 19>>, "saddle brown">>,
       <<<<160, 82, 45>>, "sienna">>,
       <<<<210, 105, 30>>, "chocolate">>,
       <<<<205, 133, 63>>, "peru">>,
       <<<<244, 164, 96>>, "sandy brown">>,
       <<<<222, 184, 135>>, "burlywood">>,
       <<<<112, 128, 144>>, "slate gray">>,
       <<<<119, 136, 153>>, "light slate gray">>,
       <<<<105, 105, 105>>, "dim gray">>,
       <<<<169, 169, 169>>, "dark gray">>,
       <<<<211, 211, 211>>, "light gray">> >>

\* webcolors' table of CSS3 colours by value (of two names for one value it
\* has cyan, magenta and the spellings with gray)
CSS3_HEX_TO_NAMES ==
    { <<<<240, 248, 255>>, "aliceblue">>,
      <<<<250, 235, 215>>, "antiquewhite">>,
      <<<<127, 255, 212>>, "aquamarine">>,
      <<<<240, 255, 255>>, "azure">>,
      <<<<245, 245, 220>>, "beige">>,
      <<<<255, 228, 196>>, "bisque">>,
      <<<<0, 0, 0>>, "black">>,
      <<<<255, 235, 205>>, "blanchedalmond">>,
      <<<<0, 0, 255>>, "blue">>,
      <<<<138, 43, 226>>, "blueviolet">>,
      <<<<165, 42, 42>>, "brown">>,
      <<<<222, 184, 135>>, "burlywood">>,
      <<<<95, 158, 160>>, "cadetblue">>,
      <<<<127, 255, 0>>, "chartreuse">>,
      <<<<210, 105, 30>>, "chocolate">>,
      <<<<255, 127, 80>>, "coral">>,
      <<<<100, 149, 237>>, "cornflowerblue">>,
      <<<<255, 248, 220>>, "cornsilk">>,
      <<<<220, 20, 60>>, "crimson">>,
      <<<<0, 255, 255>>, "cyan">>,
      <<<<0, 0, 139>>, "darkblue">>,
      <<<<0, 139, 139>>, "darkcyan">>,
      <<<<184, 134, 11>>, "darkgoldenrod">>,
      <<<<169, 169, 169>>, "darkgray">>,
      <<<<0, 100, 0>>, "darkgreen">>,
      <<<<189, 183, 107>>, "darkkhaki">>,
      <<<<139, 0, 139>>, "darkmagenta">>,
      <<<<85, 107, 47>>, "darkolivegreen">>,
      <<<<255, 140, 0>>, "darkorange">>,
      <<<<153, 50, 204>>, "darkorchid">>,
      <<<<139, 0, 0>>, "darkred">>,
      <<<<233, 150, 122>>, "darksalmon">>,
      <<<<143, 188, 143>>, "darkseagreen">>,
      <<<<72, 61, 139>>, "darkslateblue">>,
      <<<<47, 79, 79>>, "darkslategray">>,
      <<<<0, 206, 209>>, "darkturquoise">>,
      <<<<148, 0, 211>>, "darkviolet">>,
      <<<<255, 20, 147>>, "deeppink">>,
      <<<<0, 191, 255>>, "deepskyblue">>,
      <<<<105, 105, 105>>, "dimgray">>,
      <<<<30, 144, 255>>, "dodgerblue">>,
      <<<<178, 34, 34>>, "firebrick">>,
      <<<<255, 250, 240>>, "floralwhite">>,
      <<<<34, 139, 34>>, "forestgreen">>,
      <<<<220, 220, 220>>, "gainsboro">>,
      <<<<248, 248, 255>>, "ghostwhite">>,
      <<<<255, 215, 0>>, "gold">>,
      <<<<218, 165, 32>>, "goldenrod">>,
      <<<<128, 128, 128>>, "gray">>,
      <<<<0, 128, 0>>, "green">>,
      <<<<173, 255, 47>>, "greenyellow">>,
      <<<<240, 255, 240>>, "honeydew">>,
      <<<<255, 105, 180>>, "hotpink">>,
      <<<<205, 92, 92>>, "indianred">>,
      <<<<75, 0, 130>>, "indigo">>,
      <<<<255, 255, 240>>, "ivory">>,
      <<<<240, 230, 140>>, "khaki">>,
      <<<<230, 230, 250>>, "lavender">>,
      <<<<255, 240, 245>>, "lavenderblush">>,
      <<<<124, 252, 0>>, "lawngreen">>,
      <<<<255, 250, 205>>, "lemonchiffon">>,
      <<<<173, 216, 230>>, "lightblue">>,
      <<<<240, 128, 128>>, "lightcoral">>,
      <<<<224, 255, 255>>, "lightcyan">>,
      <<<<250, 250, 210>>, "lightgoldenrodyellow">>,
      <<<<211, 211, 211>>, "lightgray">>,
      <<<<144, 238, 144>>, "lightgreen">>,
      <<<<255, 182, 193>>, "lightpink">>,
      <<<<255, 160, 122>>, "lightsalmon">>,
      <<<<32, 178, 170>>, "lightseagreen">>,
      <<<<135, 206, 250>>, "lightskyblue">>,
      <<<<119, 136, 153>>, "lightslategray">>,
      <<<<176, 196, 222>>, "lightsteelblue">>,
      <<<<255, 255, 224>>, "lightyellow">>,
      <<<<0, 255, 0>>, "lime">>,
      <<<<50, 205, 50>>, "limegreen">>,
      <<<<250, 240, 230>>, "linen">>,
      <<<<255, 0, 255>>, "magenta">>,
      <<<<128, 0, 0>>, "maroon">>,
      <<<<102, 205, 170>>, "mediumaquamarine">>,
      <<<<0, 0, 205>>, "mediumblue">>,
      <<<<186, 85, 211>>, "mediumorchid">>,
      <<<<147, 112, 219>>, "mediumpurple">>,
      <<<<60, 179, 113>>, "mediumseagreen">>,
      <<<<123, 104, 238>>, "mediumslateblue">>,
      <<<<0, 250, 154>>, "mediumspringgreen">>,
      <<<<72, 209, 204>>, "mediumturquoise">>,
      <<<<199, 21, 133>>, "mediumvioletred">>,
      <<<<25, 25, 112>>, "midnightblue">>,
      <<<<245, 255, 250>>, "mintcream">>,
      <<<<255, 228, 225>>, "mistyrose">>,
      <<<<255, 228, 181>>, "moccasin">>,
      <<<<255, 222, 173>>, "navajowhite">>,
      <<<<0, 0, 128>>, "navy">>,
      <<<<253, 245, 230>>, "oldlace">>,
      <<<<128, 128, 0>>, "olive">>,
      <<<<107, 142, 35>>, "olivedrab">>,
      <<<<255, 165, 0>>, "orange">>,
      <<<<255, 69, 0>>, "orangered">>,
      <<<<218, 112, 214>>, "orchid">>,
      <<<<238, 232, 170>>, "palegoldenrod">>,
      <<<<152, 251, 152>>, "palegreen">>,
      <<<<175, 238, 238>>, "paleturquoise">>,
      <<<<219, 112, 147>>, "palevioletred">>,
      <<<<255, 239, 213>>, "papayawhip">>,
      <<<<255, 218, 185>>, "peachpuff">>,
      <<<<205, 133, 63>>, "peru">>,
      <<<<255, 192, 203>>, "pink">>,
      <<<<221, 160, 221>>, "plum">>,
      <<<<176, 224, 230>>, "powderblue">>,
      <<<<128, 0, 128>>, "purple">>,
      <<<<255, 0, 0>>, "red">>,
      <<<<188, 143, 143>>, "rosybrown">>,
      <<<<65, 105, 225>>, "royalblue">>,
      <<<<139, 69, 19>>, "saddlebrown">>,
      <<<<250, 128, 114>>, "salmon">>,
      <<<<244, 164, 96>>, "sandybrown">>,
      <<<<46, 139, 87>>, "seagreen">>,
      <<<<255, 245, 238>>, "seashell">>,
      <<<<160, 82, 45>>, "sienna">>,
      <<<<192, 192, 192>>, "silver">>,
      <<<<135, 206, 235>>, "skyblue">>,
      <<<<106, 90, 205>>, "slateblue">>,
      <<<<112, 128, 144>>, "slategray">>,
      <<<<255, 250, 250>>, "snow">>,
      <<<<0, 255, 127>>, "springgreen">>,
      <<<<70, 130, 180>>, "steelblue">>,
      <<<<210, 180, 140>>, "tan">>,
      <<<<0, 128, 128>>, "teal">>,
      <<<<216, 191, 216>>, "thistle">>,
      <<<<255, 99, 71>>, "tomato">>,
      <<<<64, 224, 208>>, "turquoise">>,
      <<<<238, 130, 238>>, "violet">>,
      <<<<245, 222, 179>>, "wheat">>,
      <<<<255, 255, 255>>, "white">>,
      <<<<245, 245, 245>>, "whitesmoke">>,
      <<<<255, 255, 0>>, "yellow">>,
      <<<<154, 205, 50>>, "yellowgreen">> }

\* webcolors.rgb_to_name(rgb)
rgb_to_name(rgb) ==
    IF \E entry \in CSS3_HEX_TO_NAMES : entry[1] = rgb
      THEN [raised |-> FALSE,
            name |-> (CHOOSE entry \in CSS3_HEX_TO_NAMES : entry[1] = rgb)[2]]
      ELSE [raised |-> TRUE]

\* (the last of the nearest entries instead of the first)
RECURSIVE closest_name_last(_, _, _, _)
closest_name_last(rgb, idx, min_distance, closest_name) ==
    IF idx > Len(EXTENDED_COLORS) THEN closest_name
    ELSE LET distance == color_distance(rgb, EXTENDED_COLORS[idx][1])
         IN  IF min_distance < 0 \/ distance <= min_distance
               THEN closest_name_last(rgb, idx + 1, distance, EXTENDED_COLORS[idx][2])
               ELSE closest_name_last(rgb, idx + 1, min_distance, closest_name)

\* lines 154-161: the loop over EXTENDED_COLORS from entry idx on;
\* min_distance = -1 stands for float('inf')
RECURSIVE closest_name_from(_, _, _, _)
closest_name_from(rgb, idx, min_distance, closest_name) ==
    IF idx > Len(EXTENDED_COLORS) THEN closest_name
    ELSE LET distance == color_distance(rgb, EXTENDED_COLORS[idx][1])
         IN  IF min_distance < 0 \/ distance < min_distance
               THEN closest_name_from(rgb, idx + 1, distance, EXTENDED_COLORS[idx][2])
               ELSE closest_name_from(rgb, idx + 1, min_distance, closest_name)

\* lines 145-164: the name a lookup that missed the cache stores and returns
name_to_store(rgb) ==
    LET exact == rgb_to_name(rgb)
    IN  IF ~exact.raised THEN exact.name
        ELSE closest_name_from(rgb, 1, -1, "unknown")

\* (the cache holds the last name only)
store_name_alone(cache, rgb, name) == [k \in {rgb} |-> name]

\* self.color_cache[rgb] = name
store_name(cache, rgb, name) ==
    [k \in (DOMAIN cache) \cup {rgb} |-> IF k = rgb THEN name ELSE cache[k]]

\* get_color_name(rgb) run without interruption: the name returned and the
\* cache it leaves
get_color_name(cache, rgb) ==
    IF rgb \in DOMAIN cache
      THEN [name |-> cache[rgb], color_cache |-> cache]
      ELSE LET name == name_to_store(rgb)
           IN  [name |-> name, color_cache |-> store_name(cache, rgb, name)]

\* the cache after get_color_name on each colour of a list in turn
RECURSIVE cache_after_naming(_, _)
cache_after_naming(cache, rgbs) ==
    IF rgbs = <<>> THEN cache
    ELSE cache_after_naming(get_color_name(cache, Head(rgbs)).color_cache, Tail(rgbs))

\* line 315: extract_colors names the colours of filtered_palette, in order
cache_after_extraction(cache, result) ==
    IF result.raised = None THEN cache_after_naming(cache, result.filtered_palette)
    ELSE cache

\* routers/colors.py lines 76, 83, 90: the handler names each harmonious colour
cache_after_harmony(cache, answer) ==
    IF answer.status = 200
      THEN cache_after_naming(cache,
               [i \in 1..Len(answer.harmonious_colors) |-> answer.harmonious_colors[i].rgb])
      ELSE cache

\* self.color_cache = {}
EmptyCache == [k \in {} |-> ""]

\* the callers of get_color_name on the shared service, none in the method
Callers == 1..MaxCallers

NoLookups == [t \in Callers |-> [pc |-> "idle"]]

(***************************************************************************)
(* ColorExtractionService.extract_colors                                   *)
(*                                                                         *)
(* An image is a record [readable, original, resized]: whether PIL can     *)
(* open it, its own pixels, and the pixels of                              *)
(* img.convert('RGBA').resize((150, 150)), both in getdata() order and     *)
(* run-length encoded as a sequence of <<rgba, n>> (n equal pixels).  A    *)
(* pixel list (valid_pixels) is a sequence of <<rgb, n>> runs.  ColorThief *)
(* is a library: get_palette returns some palette or raises.               *)
(***************************************************************************)
BackgroundThreshold == 240
AlphaCutoff == 128
ResizedSide == 150
MinValidPixels == 100
MinSide == 10

HexDigits ==
    <<"0", "1", "2", "3", "4", "5", "6", "7", "8", "9",
      "a", "b", "c", "d", "e", "f">>

\* "{:02x}".format(v) for 0 <= v <= 255, as a sequence of characters
two_hex(v) == <<HexDigits[(v \div 16) + 1], HexDigits[(v % 16) + 1]>>

rgb_to_hex(rgb) ==
    <<"#">> \o two_hex(rgb[1]) \o two_hex(rgb[2]) \o two_hex(rgb[3])

_is_background_color(rgb) ==
    \/ rgb[1] > BackgroundThreshold /\ rgb[2] > BackgroundThreshold
       /\ rgb[3] > BackgroundThreshold
    \/ rgb[1] < 15 /\ rgb[2] < 15 /\ rgb[3] < 15
    \/ rgb[1] > 230 /\ rgb[2] > 230 /\ rgb[3] > 230

\* len() of a run-length encoded pixel list
RECURSIVE pixel_count(_)
pixel_count(runs) ==
    IF runs = <<>> THEN 0 ELSE Head(runs)[2] + pixel_count(Tail(runs))

\* pixels[:k]
RECURSIVE first_pixels(_, _)
first_pixels(runs, k) ==
    IF k <= 0 \/ runs = <<>> THEN <<>>
    ELSE IF Head(runs)[2] >= k THEN << <<Head(runs)[1], k>> >>
    ELSE <<Head(runs)>> \o first_pixels(Tail(runs), k - Head(runs)[2])

\* lines 219-231: the pixels that are neither transparent nor background
valid_pixels_of(pixels) ==
    LET kept == SelectSeq(pixels,
                    LAMBDA run : /\ run[1][4] >= AlphaCutoff
                                 /\ ~_is_background_color(
                                        <<run[1][1], run[1][2], run[1][3]>>))
    IN  [i \in 1..Len(kept) |->
            << <<kept[i][1][1], kept[i][1][2], kept[i][1][3]>>, kept[i][2] >>]

_filter_background_from_image(image) == valid_pixels_of(image.resized)

\* int(math.sqrt(n)) for n up to ResizedSide * ResizedSide
isqrt(n) == CHOOSE r \in 0..ResizedSide : r * r <= n /\ (r + 1) * (r + 1) > n

\* lines 265-267
square_side(n) == IF isqrt(n) < MinSide THEN MinSide ELSE isqrt(n)

\* lines 275-276: repeat the pixels until the square is filled
RECURSIVE pad_pixels(_, _)
pad_pixels(runs, needed_pixels) ==
    IF pixel_count(runs) >= needed_pixels \/ runs = <<>> THEN runs
    ELSE pad_pixels(runs \o first_pixels(runs, needed_pixels - pixel_count(runs)),
                    needed_pixels)

\* lines 270-276: valid_pixels as the square reshaping leaves it
fit_to_square(valid_pixels, needed_pixels) ==
    IF pixel_count(valid_pixels) > needed_pixels
      THEN first_pixels(valid_pixels, needed_pixels)
      ELSE pad_pixels(valid_pixels, needed_pixels)

\* lines 260-287: valid_pixels when the percentages are computed
pixels_after_clustering(valid_pixels) ==
    IF pixel_count(valid_pixels) < MinValidPixels THEN valid_pixels
    ELSE fit_to_square(valid_pixels,
            square_side(pixel_count(valid_pixels))
            * square_side(pixel_count(valid_pixels)))

\* (the filter without its fallback)
filter_palette_only(palette) ==
    SelectSeq(palette, LAMBDA c : ~_is_background_color(c))

\* (a second filter, on the image in its own size, before giving up)
clustered_image_refiltered(image, valid_pixels) ==
    IF pixel_count(valid_pixels) >= MinValidPixels
      THEN [source |-> "temp_img", pixels |-> pixels_after_clustering(valid_pixels)]
    ELSE IF pixel_count(valid_pixels_of(image.original)) >= MinValidPixels
      THEN [source |-> "temp_img",
            pixels |-> pixels_after_clustering(valid_pixels_of(image.original))]
    ELSE [source |-> "image_path", pixels |-> image.original]

\* lines 260-286: the image ColorThief is built on, the file itself or the
\* square made of valid_pixels
clustered_image(image, valid_pixels) ==
    IF pixel_count(valid_pixels) < MinValidPixels
      THEN [source |-> "image_path", pixels |-> image.original]
      ELSE [source |-> "temp_img", pixels |-> pixels_after_clustering(valid_pixels)]

\* lines 290-292
filter_palette(palette) ==
    LET filtered_palette ==
            SelectSeq(palette, LAMBDA c : ~_is_background_color(c))
    IN  IF filtered_palette = <<>> THEN palette ELSE filtered_palette

\* lines 299-305: index (from 1) of the first palette colour nearest to pixel;
\* min_dist = -1 stands for float('inf')
RECURSIVE closest_from(_, _, _, _, _)
closest_from(pixel, filtered_palette, idx, min_dist, closest_idx) ==
    IF idx > Len(filtered_palette) THEN closest_idx
    ELSE IF min_dist < 0
            \/ color_distance(pixel, filtered_palette[idx]) < min_dist
      THEN closest_from(pixel, filtered_palette, idx + 1,
                        color_distance(pixel, filtered_palette[idx]), idx)
    ELSE closest_from(pixel, filtered_palette, idx + 1, min_dist, closest_idx)

closest_index(pixel, filtered_palette) ==
    closest_from(pixel, filtered_palette, 1, -1, 1)

RECURSIVE count_closest(_, _, _)
count_closest(runs, filtered_palette, idx) ==
    IF runs = <<>> THEN 0
    ELSE (IF closest_index(Head(runs)[1], filtered_palette) = idx
            THEN Head(runs)[2] ELSE 0)
         + count_closest(Tail(runs), filtered_palette, idx)

\* lines 296-306
color_counts(valid_pixels, filtered_palette) ==
    [idx \in 1..Len(filtered_palette) |->
        count_closest(valid_pixels, filtered_palette, idx)]

\* round((count / total_pixels) * 100, 2) in hundredths; a value halfway
\* between two hundredths goes either way with the double that holds it
percentage_of(count, total_pixels) ==
    LET q == (count * 10000) \div total_pixels
        r == (count * 10000) % total_pixels
    IN  IF 2 * r < total_pixels THEN {q}
        ELSE IF 2 * r > total_pixels THEN {q + 1}
        ELSE {q, q + 1}

\* lines 309-317: the colors lists that can result, entries idx.. of them
RECURSIVE color_infos(_, _, _, _)
color_infos(filtered_palette, counts, total_pixels, idx) ==
    IF idx > Len(filtered_palette) THEN { <<>> }
    ELSE { << [hex |-> rgb_to_hex(filtered_palette[idx]),
               rgb |-> filtered_palette[idx],
               percentage |-> p] >> \o rest :
             p \in percentage_of(counts[idx], total_pixels),
             rest \in color_infos(filtered_palette, counts, total_pixels, idx + 1) }

\* (ascending instead of descending)
RECURSIVE insert_by_percentage_asc(_, _)
insert_by_percentage_asc(sorted, x) ==
    IF sorted = <<>> THEN <<x>>
    ELSE IF Head(sorted).percentage <= x.percentage
           THEN <<Head(sorted)>> \o insert_by_percentage_asc(Tail(sorted), x)
    ELSE <<x>> \o sorted

\* colors.sort(key=lambda x: x.percentage, reverse=True): a stable sort
RECURSIVE insert_by_percentage(_, _)
insert_by_percentage(sorted, x) ==
    IF sorted = <<>> THEN <<x>>
    ELSE IF Head(sorted).percentage >= x.percentage
           THEN <<Head(sorted)>> \o insert_by_percentage(Tail(sorted), x)
    ELSE <<x>> \o sorted

RECURSIVE sort_by_percentage_from(_, _)
sort_by_percentage_from(sorted, todo) ==
    IF todo = <<>> THEN sorted
    ELSE sort_by_percentage_from(insert_by_percentage(sorted, Head(todo)), Tail(todo))

sort_by_percentage(color_list) == sort_by_percentage_from(<<>>, color_list)

\* what ColorThief.get_palette does: it raises, or returns a palette
Raises == [raised |-> TRUE]

Returns(palette) == [raised |-> FALSE, palette |-> palette]

\* what a failed call leaves: whether the image could be opened, the exception
\* raised and the one it was raised from
Failure(op, image, raised, cause) ==
    [op |-> op, readable |-> image.readable, raised |-> raised, cause |-> cause]

\* the outcomes of extract_colors(image, num_colors) when get_palette gives
\* `clustered` (Raises, or Returns(palette))
extract_colors_results(op, image, num_colors, valid_pixels, counted, clustered) ==
    IF clustered.raised
      THEN { Failure(op, image, "ValueError", "Exception") }
    ELSE IF filter_palette(clustered.palette) = <<>> /\ counted # <<>>
      THEN { Failure(op, image, "ValueError", "KeyError") }
    ELSE
      { [op |-> op, raised |-> None, image |-> image, num_colors |-> num_colors,
         valid_pixels |-> valid_pixels, counted |-> counted,
         clustered_image |-> clustered_image(image, valid_pixels),
         palette |-> clustered.palette,
         filtered_palette |-> filter_palette(clustered.palette),
         total_pixels |-> IF counted # <<>> THEN pixel_count(counted) ELSE 1,
         color_counts |-> color_counts(counted, filter_palette(clustered.palette)),
         colors |-> take(sort_by_percentage(c), num_colors)] :
        c \in color_infos(filter_palette(clustered.palette),
                          color_counts(counted, filter_palette(clustered.palette)),
                          IF counted # <<>> THEN pixel_count(counted) ELSE 1,
                          1) }

extract_colors(op, image, num_colors, clustered) ==
    IF ~image.readable
      THEN { Failure(op, image, "ValueError", "UnidentifiedImageError") }
      ELSE extract_colors_results(op, image, num_colors,
               _filter_background_from_image(image),
               pixels_after_clustering(_filter_background_from_image(image)),
               clustered)

\* img.convert('RGB'): every pixel opaque
opaque_pixels(pixels) ==
    [i \in 1..Len(pixels) |->
        << <<pixels[i][1][1], pixels[i][1][2], pixels[i][1][3], 255>>, pixels[i][2] >>]

convert_rgb(image) ==
    [readable |-> image.readable,
     original |-> opaque_pixels(image.original),
     resized |-> opaque_pixels(image.resized)]

extract_colors_from_bytes(op, image, num_colors, clustered) ==
    IF ~image.readable
      THEN { Failure(op, image, "UnidentifiedImageError", None) }
      ELSE extract_colors(op, convert_rgb(image), num_colors, clustered)

(***************************************************************************)
(* routers/colors.py: hex colour strings, as sequences of characters       *)
(***************************************************************************)
UpperHexDigits ==
    <<"0", "1", "2", "3", "4", "5", "6", "7", "8", "9",
      "A", "B", "C", "D", "E", "F">>

Whitespace == {" ", "\t", "\n"}

is_hex_digit(c) ==
    \E i \in 1..16 : HexDigits[i] = c \/ UpperHexDigits[i] = c

hex_digit_value(c) ==
    (CHOOSE i \in 1..16 : HexDigits[i] = c \/ UpperHexDigits[i] = c) - 1

\* s[i:j] of Python for 0 <= i <= j, as the characters i+1..j of s
Slice(s, i, j) == SubSeq(s, i + 1, Min2(j, Len(s)))

\* hex_color.lstrip('#')
RECURSIVE lstrip_hash(_)
lstrip_hash(s) ==
    IF s # <<>> /\ Head(s) = "#" THEN lstrip_hash(Tail(s)) ELSE s

\* str.strip() as int() applies it
RECURSIVE strip(_)
strip(s) ==
    IF s # <<>> /\ Head(s) \in Whitespace THEN strip(Tail(s))
    ELSE IF s # <<>> /\ s[Len(s)] \in Whitespace THEN strip(SubSeq(s, 1, Len(s) - 1))
    ELSE s

\* the digits of an int() literal: hex digits, single underscores between them
valid_digits(ds) ==
    /\ ds # <<>>
    /\ \A i \in 1..Len(ds) : is_hex_digit(ds[i]) \/ ds[i] = "_"
    /\ is_hex_digit(ds[1]) /\ is_hex_digit(ds[Len(ds)])
    /\ \A i \in 1..(Len(ds) - 1) : ~(ds[i] = "_" /\ ds[i + 1] = "_")

RECURSIVE digits_value(_, _)
digits_value(ds, acc) ==
    IF ds = <<>> THEN acc
    ELSE IF Head(ds) = "_" THEN digits_value(Tail(ds), acc)
    ELSE digits_value(Tail(ds), 16 * acc + hex_digit_value(Head(ds)))

ParseError == [ok |-> FALSE]

Parsed(v) == [ok |-> TRUE, value |-> v]

\* int(text, 16): surrounding whitespace, a sign and a 0x prefix are allowed
int_base16(text) ==
    LET body == strip(text)
        negative == body # <<>> /\ Head(body) = "-"
        unsigned == IF body # <<>> /\ Head(body) \in {"+", "-"}
                      THEN Tail(body) ELSE body
        ds == IF Len(unsigned) >= 2 /\ unsigned[1] = "0" /\ unsigned[2] \in {"x", "X"}
                THEN (IF Len(unsigned) >= 3 /\ unsigned[3] = "_"
                        THEN SubSeq(unsigned, 4, Len(unsigned))
                        ELSE SubSeq(unsigned, 3, Len(unsigned)))
                ELSE unsigned
    IN  IF valid_digits(ds)
          THEN Parsed(IF negative THEN 0 - digits_value(ds, 0) ELSE digits_value(ds, 0))
          ELSE ParseError

\* tuple(int(hex_color[i:i+2], 16) for i in (0, 2, 4)) after lstrip('#'):
\* the triple, or ParseError for a ValueError
parse_hex_color(hex_color) ==
    LET stripped == lstrip_hash(hex_color)
        parts == [k \in 1..3 |-> int_base16(Slice(stripped, 2 * k - 2, 2 * k))]
    IN  IF \A k \in 1..3 : parts[k].ok
          THEN [ok |-> TRUE, rgb |-> <<parts[1].value, parts[2].value, parts[3].value>>]
          ELSE ParseError

\* one entry of "harmonious_colors" (its "name", the nearest named colour, is
\* left out)
harmonious_color(c) == [hex |-> rgb_to_hex(c), rgb |-> c]

\* HTTPException(status_code=400, detail=...); the detail as its pieces
BadRequest(detail) == [status |-> 400, detail |-> detail]

\* the answers of the handler once the colour is parsed
harmony_of_parsed(stripped, rgb, scheme) ==
    LET result(harmonious_colors) ==
            [status |-> 200,
             input_color |-> [hex |-> <<"#">> \o stripped, rgb |-> rgb],
             scheme |-> scheme,
             harmonious_colors |-> harmonious_colors]
    IN  IF scheme = "complementary"
          THEN { result(<<harmonious_color(comp)>>) : comp \in get_complementary(rgb) }
        ELSE IF scheme = "analogous"
          THEN { result([i \in 1..2 |-> harmonious_color(cs[i])]) :
                   cs \in get_analogous(rgb) }
        ELSE IF scheme = "triadic"
          THEN { result([i \in 1..2 |-> harmonious_color(cs[i])]) :
                   cs \in get_triadic(rgb) }
        ELSE { BadRequest(<<"Invalid scheme. Use: complementary, analogous, or triadic">>) }

\* GET /harmony/{scheme}: the answers the handler can give
get_color_harmony(hex_color, scheme) ==
    IF ~parse_hex_color(hex_color).ok
      THEN { BadRequest(<<"Invalid hex color">>) }
      ELSE harmony_of_parsed(lstrip_hash(hex_color),
                             parse_hex_color(hex_color).rgb, scheme)

rating_of(score) ==
    IF score >= 80 THEN "Excellent"
    ELSE IF score >= 60 THEN "Good"
    ELSE IF score >= 40 THEN "Fair"
    ELSE "Poor"

\* POST /harmony/score; round(score, 2) leaves the whole-number scores as
\* they are
post_harmony_score(hex_colors) ==
    IF Len(hex_colors) < 2 THEN BadRequest(<<"At least 2 colors required">>)
    ELSE IF \E i \in 1..Len(hex_colors) : ~parse_hex_color(hex_colors[i]).ok
      THEN LET first_bad == CHOOSE i \in 1..Len(hex_colors) :
                              /\ ~parse_hex_color(hex_colors[i]).ok
                              /\ \A j \in 1..(i - 1) : parse_hex_color(hex_colors[j]).ok
           IN  BadRequest(<<"Invalid hex color: ", lstrip_hash(hex_colors[first_bad])>>)
    ELSE
      LET rgb_colors == [i \in 1..Len(hex_colors) |-> parse_hex_color(hex_colors[i]).rgb]
      IN  [status |-> 200, colors |-> hex_colors,
           harmony_score |-> calculate_harmony_score(rgb_colors),
           rating |-> rating_of(calculate_harmony_score(rgb_colors))]

(***************************************************************************)
(* Inputs of the colour functions                                          *)
(***************************************************************************)
\* Colours whose pairwise hue differences fall in every band of
\* calculate_harmony_score and on both sides of every colors_match limit; none
\* of the differences is so close to a limit that the double and the exact
\* value compare differently.
Palette ==
    { <<255, 0, 0>>, <<255, 64, 0>>, <<255, 255, 0>>, <<0, 255, 0>>,
      <<0, 255, 191>>, <<0, 255, 255>>, <<0, 0, 255>>, <<128, 128, 128>>,
      <<120, 60, 30>> }

\* Two clashing hues (60 degrees apart): enough of them drive the score to 0.
ClashPalette == { <<255, 0, 0>>, <<255, 255, 0>> }

Levels == {0, 85, 170, 255}

\* A coarse grid over the RGB cube plus dark and nearly grey colours.
Grid ==
    (Levels \X Levels \X Levels)
    \cup { <<0, 0, 1>>, <<0, 1, 0>>, <<1, 0, 0>>, <<0, 1, 1>>, <<5, 5, 6>>,
           <<6, 5, 6>>, <<17, 16, 16>>, <<200, 30, 60>> }

Schemes == {"complementary", "analogous", "triadic", "monochromatic"}

SchemeNames == Schemes \cup {"split", ""}

Tolerances == {0, 15, DefaultTolerance, 90}

ListsUpTo(n, S) == UNION { [1..k -> S] : k \in 0..n }

ColorInputs ==
    ListsUpTo(MaxColors, Palette)
    \cup ListsUpTo(MaxClashColors, ClashPalette)
    \cup { <<a>> : a \in Grid }
    \cup { <<a, b>> : a \in Grid, b \in Grid }

NoCall == [op |-> "none"]

NoRequest == [op |-> "none"]

(***************************************************************************)
(* Calls of the colour functions, one per behaviour                        *)
(***************************************************************************)
OutfitIdle ==
    UNCHANGED <<closet, request, all_items, generated, ranked, response,
                scored, extraction, http, color_cache, lookups, uploads>>

\* (two or more colours are compared only within Palette, where the double's
\* hue differences band as the exact ones do)
CalculateHarmonyScore ==
    /\ out = NoCall
    /\ Len(colors) < 2 \/ \A i \in 1..Len(colors) : colors[i] \in Palette
    /\ out' = [op |-> "calculate_harmony_score",
               score |-> calculate_harmony_score(colors)]
    /\ UNCHANGED colors
    /\ OutfitIdle

ColorsMatch(scheme, tolerance) ==
    /\ out = NoCall
    /\ Len(colors) = 2
    /\ colors[1] \in Palette /\ colors[2] \in Palette
    /\ out' = [op |-> "colors_match", scheme |-> scheme, tolerance |-> tolerance,
               match |-> colors_match(colors[1], colors[2], scheme, tolerance)]
    /\ UNCHANGED colors
    /\ OutfitIdle

GetComplementary ==
    /\ out = NoCall
    /\ Len(colors) = 1
    /\ \E c \in get_complementary(colors[1]) :
          out' = [op |-> "get_complementary", rgb |-> c]
    /\ UNCHANGED colors
    /\ OutfitIdle

\* hsl_to_rgb(rgb_to_hsl(c))
HslRoundTrip ==
    /\ out = NoCall
    /\ Len(colors) = 1
    /\ \E c \in hsl_to_rgb(rgb_to_hsl(colors[1])) :
          out' = [op |-> "hsl_to_rgb", rgb |-> c]
    /\ UNCHANGED colors
    /\ OutfitIdle

\* color_distance(a, b) and color_distance(b, a)
ColorDistance ==
    /\ out = NoCall
    /\ Len(colors) = 2
    /\ out' = [op |-> "color_distance",
               d12 |-> color_distance(colors[1], colors[2]),
               d21 |-> color_distance(colors[2], colors[1])]
    /\ UNCHANGED colors
    /\ OutfitIdle

InitColor ==
    /\ colors \in ColorInputs
    /\ out = NoCall
    /\ closet = <<>>
    /\ request = NoRequest
    /\ all_items = <<>>
    /\ generated = <<>>
    /\ ranked = <<>>
    /\ response = <<>>
    /\ scored = NoCall
    /\ extraction = NoCall
    /\ http = NoCall
    /\ color_cache = EmptyCache
    /\ lookups = NoLookups
    /\ uploads = {}

NextColor ==
    \/ CalculateHarmonyScore
    \/ \E scheme \in SchemeNames, tolerance \in Tolerances : ColorsMatch(scheme, tolerance)
    \/ GetComplementary
    \/ HslRoundTrip
    \/ ColorDistance

SpecColor == InitColor /\ [][NextColor]_vars

(***************************************************************************)
(* The closet and the suggestion request                                   *)
(***************************************************************************)
Red == <<255, 0, 0>>
Yellow == <<255, 255, 0>>
Green == <<0, 255, 0>>
Cyan == <<0, 255, 255>>
Blue == <<0, 0, 255>>

Garment(id, category, style, dominant_colors) ==
    [id |-> id, category |-> category, style |-> style,
     dominant_colors |-> dominant_colors]

\* garments that can be stored in the closet
Wardrobe ==
    { Garment("t1", "top", "casual", <<Red, Blue>>),
      Garment("t2", "top", "formal", <<Cyan>>),
      Garment("b1", "bottom", "casual", <<Yellow>>),
      Garment("s1", "shoes", "streetwear", <<>>),
      Garment("d1", "dress", "casual", <<Blue>>) }

\* item lists a client can send with the request
FullList ==
    << Garment("t2", "top", "formal", <<Cyan>>),
       Garment("t1", "top", "casual", <<Red, Blue>>),
       Garment("t3", "top", "casual", <<Red>>),
       Garment("b1", "bottom", "casual", <<Yellow>>),
       Garment("o1", "outerwear", "business", <<Green>>),
       Garment("s1", "shoes", "streetwear", <<>>) >>

\* items with missing keys, and an accessory
SparseList ==
    << [id |-> "t1"],
       [id |-> "b1", category |-> "bottom", dominant_colors |-> <<Green>>],
       [id |-> "a1", category |-> "accessory", style |-> "vintage",
        dominant_colors |-> <<Red>>] >>

\* a top without colours under two coloured layers, and an accessory
LayeredList ==
    << Garment("t0", "top", "casual", <<>>),
       Garment("b1", "bottom", "casual", <<Yellow>>),
       Garment("o1", "outerwear", "business", <<Green>>),
       Garment("o2", "outerwear", "casual", <<Cyan>>),
       Garment("a1", "accessory", "vintage", <<Red>>) >>

RequestItems == {None, FullList, SparseList, LayeredList}

BaseItemIds == {None, "t1", "b1", "s1", "zz"}

RequestStyles == {None, "casual", "vintage"}

RequestSchemes == {None, "complementary", "triadic"}

ColorIdle ==
    UNCHANGED <<colors, out, scored, extraction, http, color_cache, lookups, uploads>>

\* POST /closet: StorageService.add_clothing of an item with a fresh id
AddClothing(item) ==
    /\ request = NoRequest
    /\ Len(closet) < MaxCloset
    /\ \A i \in 1..Len(closet) : closet[i].id # item.id
    /\ closet' = Append(closet, item)
    /\ UNCHANGED <<request, all_items, generated, ranked, response>>
    /\ ColorIdle

\* OutfitGeneratorService.generate_outfit_suggestions
GenerateOutfitSuggestions(items, base_item_id, style, color_scheme, max_suggestions) ==
    /\ request = NoRequest
    /\ request' = [op |-> "generate_outfit_suggestions", items |-> items,
                   base_item_id |-> base_item_id, style |-> style,
                   color_scheme |-> color_scheme,
                   max_suggestions |-> max_suggestions]
    /\ all_items' = items_in_use(items, closet, style)
    /\ generated' = suggestions_of(all_items', base_item_id, color_scheme)
    /\ ranked' = sort_by_total_score(generated')
    /\ response' = take(ranked', max_suggestions)
    /\ UNCHANGED closet
    /\ ColorIdle

Init ==
    /\ closet = <<>>
    /\ request = NoRequest
    /\ all_items = <<>>
    /\ generated = <<>>
    /\ ranked = <<>>
    /\ response = <<>>
    /\ colors = <<>>
    /\ out = NoCall
    /\ scored = NoCall
    /\ extraction = NoCall
    /\ http = NoCall
    /\ color_cache = EmptyCache
    /\ lookups = NoLookups
    /\ uploads = {}

Next ==
    \/ \E item \in Wardrobe : AddClothing(item)
    \/ \E items \in RequestItems, base_item_id \in BaseItemIds,
          style \in RequestStyles, color_scheme \in RequestSchemes,
          max_suggestions \in 1..MaxSuggestionsBound :
            GenerateOutfitSuggestions(items, base_item_id, style, color_scheme,
                                      max_suggestions)

Spec == Init /\ [][Next]_vars

(***************************************************************************)
(* Calls of the scoring methods of OutfitGeneratorService on item lists    *)
(***************************************************************************)
CoreIdle ==
    UNCHANGED <<colors, out, closet, request, all_items, generated, ranked,
                response>>

\* item lists that differ in their styles only
StyledItems(n) ==
    UNION { [1..m -> { Garment("", "top", st, <<>>) : st \in ClothingStyle }]
            : m \in 0..n }

\* longer lists over two styles that do not go together
LongStyledItems(n) ==
    UNION { [1..m -> { Garment("", "top", st, <<>>) : st \in {"casual", "formal"} }]
            : m \in 0..n }

WornStyles == {"casual", "formal"}

WornColors == { <<>>, <<Red>>, <<Yellow>>, <<Cyan, Red>> }

\* item lists whose garments have zero, one or two colours
WornItems(n) ==
    UNION { [1..m -> { Garment("", "top", st, cs) : st \in WornStyles,
                                                    cs \in WornColors }]
            : m \in 0..n }

\* the list with its first two items exchanged
SwapFirstTwo(items) ==
    IF Len(items) < 2 THEN items
    ELSE <<items[2], items[1]>> \o SubSeq(items, 3, Len(items))

CheckStyleCompatibility(items) ==
    /\ scored = NoCall
    /\ scored' = [op |-> "check_style_compatibility", items |-> items,
                  score |-> check_style_compatibility(items)]
    /\ UNCHANGED <<extraction, http, color_cache, lookups, uploads>>
    /\ CoreIdle

\* check_style_compatibility on a list and on the list in another order
CheckStyleBothOrders(items) ==
    /\ scored = NoCall
    /\ Len(items) >= 2
    /\ scored' = [op |-> "check_style_compatibility twice", items |-> items,
                  score |-> check_style_compatibility(items),
                  swapped |-> check_style_compatibility(SwapFirstTwo(items))]
    /\ UNCHANGED <<extraction, http, color_cache, lookups, uploads>>
    /\ CoreIdle

\* the two scores of one outfit, as lines 219-220 and 262-263 compute them
ScoreOutfit(items) ==
    /\ scored = NoCall
    /\ scored' = [op |-> "calculate_outfit_harmony", items |-> items,
                  harmony_score |-> calculate_outfit_harmony(items),
                  style_score |-> check_style_compatibility(items)]
    /\ UNCHANGED <<extraction, http, color_cache, lookups, uploads>>
    /\ CoreIdle

NextStyle ==
    \/ \E items \in StyledItems(MaxStyled) \cup LongStyledItems(MaxLongStyled) :
          CheckStyleCompatibility(items)
    \/ \E items \in StyledItems(MaxStyled) : CheckStyleBothOrders(items)
    \/ \E items \in WornItems(MaxWorn) : ScoreOutfit(items)

SpecStyle == Init /\ [][NextStyle]_vars

(***************************************************************************)
(* Calls of extract_colors and extract_colors_from_bytes                   *)
(***************************************************************************)
White == <<255, 255, 255>>
Maroon == <<200, 30, 60>>

Opaque(rgb) == <<rgb[1], rgb[2], rgb[3], 255>>

Transparent(rgb) == <<rgb[1], rgb[2], rgb[3], 0>>

AllPixels == ResizedSide * ResizedSide

\* a picture of 150 x 150 pixels, which resize leaves as it is
Picture(runs) == [readable |-> TRUE, original |-> runs, resized |-> runs]

\* a larger picture and what resize makes of it
LargePicture(runs, resized) ==
    [readable |-> TRUE, original |-> runs, resized |-> resized]

\* a file PIL cannot open
Corrupt == [readable |-> FALSE, original |-> <<>>, resized |-> <<>>]

Images ==
    { Picture(<< <<Opaque(Red), AllPixels>> >>),
      Picture(<< <<Opaque(White), 1125>>, <<Opaque(Red), AllPixels - 2250>>,
                 <<Opaque(White), 1125>> >>),
      Picture(<< <<Opaque(White), AllPixels - 50>>, <<Opaque(Red), 30>>,
                 <<Opaque(Maroon), 20>> >>),
      Picture(<< <<Opaque(White), AllPixels>> >>),
      Picture(<< <<Opaque(Red), 4100>>, <<Transparent(Red), AllPixels - 10100>>,
                 <<Opaque(Blue), 6000>> >>),
      Picture(<< <<Opaque(Red), 10>>, <<Opaque(Blue), 1590>>,
                 <<Opaque(White), AllPixels - 1600>> >>),
      LargePicture(<< <<Opaque(White), 16 * AllPixels - 1500>>,
                      <<Opaque(Maroon), 1500>> >>,
                   << <<Opaque(White), AllPixels - 94>>,
                      <<Opaque(Maroon), 94>> >>),
      Corrupt }

ClusterColors == {Red, Blue, White}

\* a palette may hold one colour more than asked for, or none
Palettes(num_colors) ==
    UNION { [1..m -> ClusterColors] : m \in 0..(num_colors + 1) }

LibraryOutcomes(num_colors) ==
    {Raises} \cup { Returns(palette) : palette \in Palettes(num_colors) }

\* a client calls again only after a failure
CanExtract ==
    IF extraction.op = "none" THEN TRUE ELSE extraction.raised # None

ExtractColors(image, num_colors, clustered) ==
    /\ CanExtract
    /\ extraction' \in extract_colors("extract_colors", image, num_colors, clustered)
    /\ color_cache' = cache_after_extraction(color_cache, extraction')
    /\ UNCHANGED <<scored, http, lookups, uploads>>
    /\ CoreIdle

ExtractColorsFromBytes(image, num_colors, clustered) ==
    /\ CanExtract
    /\ extraction' \in extract_colors_from_bytes("extract_colors_from_bytes",
                                                 image, num_colors, clustered)
    /\ color_cache' = cache_after_extraction(color_cache, extraction')
    /\ UNCHANGED <<scored, http, lookups, uploads>>
    /\ CoreIdle

NextExtract ==
    \/ \E image \in Images, num_colors \in 1..MaxNumColors :
          \E clustered \in LibraryOutcomes(num_colors) :
             ExtractColors(image, num_colors, clustered)
    \/ \E image \in Images, num_colors \in 1..MaxNumColors :
          \E clustered \in LibraryOutcomes(num_colors) :
             ExtractColorsFromBytes(image, num_colors, clustered)

SpecExtract == Init /\ [][NextExtract]_vars

(***************************************************************************)
(* Requests to the colour endpoints and to POST /outfits/suggest           *)
(***************************************************************************)
\* what a client can write between the '#' signs and the trailing digits:
\* six digits in both cases, signed and spaced digits, a non-digit, too few
\* characters, nothing
HexBodies ==
    { <<"f", "f", "0", "0", "0", "0">>,
      <<"0", "0", "F", "0", "f", "f">>,
      <<"+", "f", "+", "f", "+", "f">>,
      <<" ", "7", " ", "7", " ", "7">>,
      <<"f", "f", "0", "0", "g", "0">>,
      <<"g", "0", "0", "0", "0", "0">>,
      <<"f", "f", "0", "0", "0">>,
      <<"f", "f", "0", "0">>,
      <<>> }

Repeat(c, n) == [i \in 1..n |-> c]

HexColorStrings ==
    { Repeat("#", h) \o body \o Repeat("0", x) :
        h \in 0..MaxHashes, body \in HexBodies, x \in 0..MaxExtra }

\* colours for POST /harmony/score, well and badly written
PostedColors ==
    { <<"f", "f", "0", "0", "0", "0">>,
      <<"#", "f", "f", "f", "f", "0", "0">>,
      <<"#", "0", "0", "F", "F", "F", "F">>,
      <<"0", "0", "0", "0", "f", "f">>,
      <<"f", "f", "0", "0">>,
      <<"#", "g", "g", "0", "0", "0", "0">>,
      <<"+", "f", "+", "f", "+", "f">> }

GetColorHarmony(hex_color, scheme) ==
    /\ http = NoCall
    /\ \E answer \in get_color_harmony(hex_color, scheme) :
          http' = [op |-> "GET /colors/harmony/{scheme}", hex_color |-> hex_color,
                   scheme |-> scheme, response |-> answer]
    /\ color_cache' = cache_after_harmony(color_cache, http'.response)
    /\ UNCHANGED <<scored, extraction, lookups, uploads>>
    /\ CoreIdle

PostHarmonyScore(hex_colors) ==
    /\ http = NoCall
    /\ http' = [op |-> "POST /colors/harmony/score", colors |-> hex_colors,
                response |-> post_harmony_score(hex_colors)]
    /\ UNCHANGED <<scored, extraction, color_cache, lookups, uploads>>
    /\ CoreIdle

\* POST /outfits/suggest: the request's fields go to
\* generate_outfit_suggestions as they are, and its list is the answer
PostSuggest(items, base_item_id, style, color_scheme, max_suggestions) ==
    /\ http = NoCall
    /\ request = NoRequest
    /\ request' = [op |-> "generate_outfit_suggestions", items |-> items,
                   base_item_id |-> base_item_id, style |-> style,
                   color_scheme |-> color_scheme,
                   max_suggestions |-> max_suggestions]
    /\ all_items' = items_in_use(items, closet, style)
    /\ generated' = suggestions_of(all_items', base_item_id, color_scheme)
    /\ ranked' = sort_by_total_score(generated')
    /\ response' = take(ranked', max_suggestions)
    /\ http' = [op |-> "POST /outfits/suggest", scheme |-> color_scheme,
                response |-> [status |-> 200, count |-> Len(response'),
                              suggestions |-> response']]
    /\ UNCHANGED <<closet, colors, out, scored, extraction, color_cache, lookups,
                   uploads>>

NextApi ==
    \/ \E hex_color \in HexColorStrings, scheme \in SchemeNames \ {""} :
          GetColorHarmony(hex_color, scheme)
    \/ \E hex_colors \in ListsUpTo(MaxPosted, PostedColors) :
          PostHarmonyScore(hex_colors)
    \/ \E items \in {FullList, SparseList}, base_item_id \in {None, "t1"},
          style \in {None, "casual"}, color_scheme \in SchemeNames \cup {None},
          max_suggestions \in 1..MaxSuggestionsBound :
            PostSuggest(items, base_item_id, style, color_scheme, max_suggestions)

SpecApi == Init /\ [][NextApi]_vars

(***************************************************************************)
(* Calls of get_color_name on the shared service, interleaved              *)
(*                                                                         *)
(* A caller is outside the method ("idle"), has missed the cache at line   *)
(* 142 and not yet stored a name ("missed"), or has returned.              *)
(***************************************************************************)
\* an exact CSS3 colour, a colour as near to "green" as to "dark green", a
\* colour with one nearest entry, and two colours next to CSS3 colours
NamedInputs ==
    { <<255, 0, 0>>, <<0, 114, 0>>, <<200, 30, 60>>, <<245, 245, 244>>, <<1, 0, 0>> }

\* lines 141-143: a caller enters and finds the colour in the cache or not
EnterGetColorName(t, rgb) ==
    /\ lookups[t].pc # "missed"
    /\ IF rgb \in DOMAIN color_cache
         THEN lookups' = [lookups EXCEPT ![t] =
                             [pc |-> "returned", rgb |-> rgb, name |-> color_cache[rgb]]]
         ELSE lookups' = [lookups EXCEPT ![t] = [pc |-> "missed", rgb |-> rgb]]
    /\ UNCHANGED color_cache
    /\ UNCHANGED uploads
    /\ UNCHANGED <<scored, extraction, http>>
    /\ CoreIdle

\* lines 145-164: the caller that missed finds the name, stores and returns it
StoreColorName(t) ==
    /\ lookups[t].pc = "missed"
    /\ LET name == name_to_store(lookups[t].rgb)
       IN  /\ color_cache' = store_name(color_cache, lookups[t].rgb, name)
           /\ lookups' = [lookups EXCEPT ![t] =
                             [pc |-> "returned", rgb |-> lookups[t].rgb,
                              name |-> name]]
    /\ UNCHANGED uploads
    /\ UNCHANGED <<scored, extraction, http>>
    /\ CoreIdle

NextName ==
    \/ \E t \in Callers, rgb \in NamedInputs : EnterGetColorName(t, rgb)
    \/ \E t \in Callers : StoreColorName(t)

SpecName == Init /\ [][NextName]_vars

(***************************************************************************)
(* routers/closet.py: POST /closet, add_clothing_item                      *)
(*                                                                         *)
(* uploads is the set of file names of the uploads directory; a file name  *)
(* is the uuid4 it was made of, a number that no file in the directory     *)
(* has.  The handler is suspended while it writes the uploaded file, so    *)
(* it takes two steps: up to the end of the write, and the rest.  The id   *)
(* of the stored item, a second uuid4, is kept equal to the file's.        *)
(***************************************************************************)
\* num_colors of the handler's extract_colors call
UploadNumColors == 5

Uuids == 1..(MaxCloset + 1)

\* (the file left where it is)
file_kept(files, file_path) == files

\* os.remove(file_path)
os_remove(files, file_path) == files \ {file_path}

\* StorageService.add_clothing: load clothing.json, append the item, save
add_clothing(data, item) == Append(data, item)

\* the ClothingItem of lines 105-112, its dominant_colors as RGB triples
ClothingItem(uuid, category, style, image_path, dominant_colors) ==
    [id |-> uuid, category |-> category, style |-> style,
     image_path |-> image_path,
     dominant_colors |-> [i \in 1..Len(dominant_colors) |-> dominant_colors[i].rgb]]

\* HTTPException(status_code=..., detail=...)
HTTPError(status_code, detail) == [status |-> status_code, detail |-> detail]

\* uploaded files: a red picture, a white one, and a file that is no image
UploadedImages ==
    { Picture(<< <<Opaque(Red), AllPixels>> >>),
      Picture(<< <<Opaque(White), AllPixels>> >>),
      Corrupt }

\* content types as sequences of characters
ImagePrefix == <<"i", "m", "a", "g", "e", "/">>

UploadContentTypes ==
    { ImagePrefix \o <<"p", "n", "g">>,
      <<"t", "e", "x", "t", "/", "p", "l", "a", "i", "n">>,
      <<"i", "m", "a", "g", "e">> }

\* image.content_type.startswith('image/')
is_image_type(content_type) ==
    IF Len(content_type) >= Len(ImagePrefix)
      THEN SubSeq(content_type, 1, Len(ImagePrefix)) = ImagePrefix
      ELSE FALSE

\* what get_palette gives for an uploaded picture
UploadOutcomes ==
    { Raises, Returns(<<>>), Returns(<<Red>>), Returns(<<White, Red>>) }

\* lines 78-90: the content type is checked and the file written
ReceiveUpload(content_type, category, style, image, uuid) ==
    /\ IF http.op = "POST /closet" THEN http.pc = "done" ELSE http = NoCall
    /\ Len(closet) < MaxCloset
    /\ uuid \notin uploads
    /\ IF ~is_image_type(content_type)
         THEN /\ http' = [op |-> "POST /closet", pc |-> "done",
                          response |-> HTTPError(400, "File must be an image")]
              /\ UNCHANGED uploads
         ELSE /\ http' = [op |-> "POST /closet", pc |-> "saved", file_path |-> uuid,
                          category |-> category, style |-> style, image |-> image]
              /\ uploads' = uploads \cup {uuid}
    /\ UNCHANGED <<closet, extraction, color_cache>>
    /\ UNCHANGED <<colors, out, request, all_items, generated, ranked, response,
                   scored, lookups>>

\* lines 92-114: the colours are extracted and the item is stored, or the
\* file is removed
AnalyzeUpload(clustered) ==
    /\ http.op = "POST /closet"
    /\ http.pc = "saved"
    /\ extraction' \in extract_colors("extract_colors", http.image, UploadNumColors,
                                       clustered)
    /\ color_cache' = cache_after_extraction(color_cache, extraction')
    /\ IF extraction'.raised # None
         THEN /\ uploads' = os_remove(uploads, http.file_path)
              /\ closet' = closet
              /\ http' = [op |-> "POST /closet", pc |-> "done",
                          file_path |-> http.file_path,
                          response |-> HTTPError(500, "Failed to analyze image")]
         ELSE /\ uploads' = uploads
              /\ closet' = add_clothing(closet,
                               ClothingItem(http.file_path, http.category, http.style,
                                            http.file_path, extraction'.colors))
              /\ http' = [op |-> "POST /closet", pc |-> "done",
                          file_path |-> http.file_path,
                          response |-> [status |-> 200, item |-> closet'[Len(closet')]]]
    /\ UNCHANGED <<colors, out, request, all_items, generated, ranked, response,
                   scored, lookups>>

NextUpload ==
    \/ \E content_type \in UploadContentTypes, category \in {"top", "shoes"},
          style \in {"casual"}, image \in UploadedImages, uuid \in Uuids :
            ReceiveUpload(content_type, category, style, image, uuid)
    \/ \E clustered \in UploadOutcomes : AnalyzeUpload(clustered)

SpecUpload == Init /\ [][NextUpload]_vars

(***************************************************************************)
(* Properties of the colour functions (SpecColor)                          *)
(***************************************************************************)
HarmonyCalled == out.op = "calculate_harmony_score"

\* C5: calculate_harmony_score returns 100.0 for the empty colour list and for
\* every single-colour list.
C5_FewColorsScore100 ==
    (HarmonyCalled /\ Len(colors) < 2) => out.score = 100

C5_Witness == HarmonyCalled /\ Len(colors) = 1 /\ out.score = 100

\* The adjustment of one pair as a sum over the four bands of the claim.
BandAdjust(d) ==
    (IF RLe(RInt(165), d) /\ RLe(d, RInt(195)) THEN 10 ELSE 0)
    + (IF RLe(d, RInt(45)) THEN 5 ELSE 0)
    + (IF RLe(RInt(105), d) /\ RLe(d, RInt(135)) THEN 8 ELSE 0)
    + (IF RLe(RInt(60), d) /\ RLe(d, RInt(90)) THEN -15 ELSE 0)

HueOf(rgb) == rgb_to_hsl(rgb)[1]

RECURSIVE SumPairs(_, _)
SumPairs(cs, P) ==
    IF P = {} THEN 0
    ELSE LET p == CHOOSE q \in P : TRUE
         IN  BandAdjust(hue_diff(HueOf(cs[p[1]]), HueOf(cs[p[2]])))
             + SumPairs(cs, P \ {p})

UnorderedPairs(n) == { p \in (1..n) \X (1..n) : p[1] < p[2] }

Clamp(x, lo, hi) == IF x < lo THEN lo ELSE IF x > hi THEN hi ELSE x

\* C6: for two or more colours the score is clamp(100 + sum over all unordered
\* pairs of adj(d), 0, 100), with adj +10 on [165,195], +5 up to 45, +8 on
\* [105,135], -15 on [60,90] and 0 elsewhere; so the score lies in [0,100].
C6_HarmonyScoreFormula ==
    (HarmonyCalled /\ Len(colors) >= 2) =>
        /\ out.score = Clamp(100 + SumPairs(colors, UnorderedPairs(Len(colors))), 0, 100)
        /\ out.score >= 0 /\ out.score <= 100

\* a clash lowers the score below 100 without reaching the lower clamp
C6_Witness ==
    HarmonyCalled /\ Len(colors) = 3 /\ out.score > 0 /\ out.score < 100

\* the lower clamp binds: six colours of two clashing hues
C6_WitnessClamp0 ==
    /\ HarmonyCalled /\ out.score = 0
    /\ 100 + SumPairs(colors, UnorderedPairs(Len(colors))) < 0

\* C7: colors_match is |d-180| <= tolerance for complementary, d <= tolerance
\* for analogous, |d-120| <= tolerance or |d-240| <= tolerance for triadic,
\* d <= 15 for monochromatic whatever the tolerance, true for any other name.
C7_ColorsMatchTable ==
    out.op = "colors_match" =>
        LET d == hue_diff(HueOf(colors[1]), HueOf(colors[2]))
            t == RInt(out.tolerance)
            near(x) == RLe(RAbs(RSub(d, RInt(x))), t)
        IN  /\ out.scheme = "complementary" => (out.match <=> near(180))
            /\ out.scheme = "analogous" => (out.match <=> RLe(d, t))
            /\ out.scheme = "triadic" => (out.match <=> (near(120) \/ near(240)))
            /\ out.scheme = "monochromatic" => (out.match <=> RLe(d, RInt(15)))
            /\ out.scheme \notin Schemes => out.match

\* monochromatic refuses a pair 15 < d <= tolerance apart
C7_Witness ==
    /\ out.op = "colors_match" /\ out.scheme = "monochromatic"
    /\ out.tolerance = DefaultTolerance /\ ~out.match
    /\ RLe(hue_diff(HueOf(colors[1]), HueOf(colors[2])), RInt(out.tolerance))

HasHue(rgb) == ~(rgb[1] = rgb[2] /\ rgb[2] = rgb[3])

\* C8: for every colour c with a defined hue, colors_match(c,
\* get_complementary(c), 'complementary') with the default tolerance is true.
C8_ComplementMatches ==
    (out.op = "get_complementary" /\ HasHue(colors[1])) =>
        colors_match(colors[1], out.rgb, "complementary", DefaultTolerance)

\* C9: hsl_to_rgb(rgb_to_hsl(c)) differs from c by at most 1 in each channel.
C9_RoundTripWithin1 ==
    out.op = "hsl_to_rgb" =>
        \A k \in 1..3 : Abs(out.rgb[k] - colors[1][k]) <= 1

\* the truncation lost a unit in some channel
C9_Witness ==
    /\ out.op = "hsl_to_rgb" /\ HasHue(colors[1])
    /\ \E k \in 1..3 : out.rgb[k] = colors[1][k] - 1

\* C10: color_distance(a,b) = color_distance(b,a), and color_distance(a,b) = 0
\* exactly when a = b.
C10_DistanceSymmetricZeroIffEqual ==
    out.op = "color_distance" =>
        /\ out.d12 = out.d21
        /\ (out.d12 = 0) <=> (colors[1] = colors[2])

C10_Witness ==
    /\ out.op = "color_distance"
    /\ colors[1][1] # colors[2][1] /\ colors[1][3] # colors[2][3]
    /\ out.d12 > 0

(***************************************************************************)
(* Properties of generate_outfit_suggestions (Spec)                        *)
(***************************************************************************)
Called == request.op = "generate_outfit_suggestions"

OpenMode == Called /\ request.base_item_id = None

\* C1: for every valid maxSuggestions k the call returns at most k candidates,
\* and the result is exactly the first min(k, N) entries of the ranked list of
\* all N generated candidates, in base-item mode and in open mode alike.
C1_AtMostKFirstOfRanked ==
    Called =>
        /\ Len(response) <= request.max_suggestions
        /\ Len(ranked) = Len(generated)
        /\ Len(response) = Min2(request.max_suggestions, Len(ranked))
        /\ \A i \in 1..Len(response) : response[i] = ranked[i]

\* more candidates than asked for, in base-item mode
C1_Witness ==
    /\ Called /\ request.base_item_id # None
    /\ Len(generated) > request.max_suggestions
    /\ Len(response) = request.max_suggestions

\* fewer candidates than asked for, in open mode
C1_WitnessShort ==
    /\ OpenMode /\ Len(generated) > 0
    /\ Len(generated) < request.max_suggestions
    /\ Len(response) = Len(generated)

ScoresOf(suggestions) == { suggestions[i].total_score : i \in 1..Len(suggestions) }

WithScore(suggestions, v) == SelectSeq(suggestions, LAMBDA c : c.total_score = v)

IsPrefix(a, b) == Len(a) <= Len(b) /\ \A i \in 1..Len(a) : a[i] = b[i]

\* C2: the returned list is ordered by total_score descending, and candidates
\* with equal total_score appear in the order they were generated.
C2_DescendingStable ==
    Called =>
        /\ \A i \in 1..Len(response) : \A j \in i..Len(response) :
              response[i].total_score >= response[j].total_score
        /\ \A v \in ScoresOf(generated) :
              /\ WithScore(ranked, v) = WithScore(generated, v)
              /\ IsPrefix(WithScore(response, v), WithScore(generated, v))

\* the sort moved a later candidate to the front, and two different candidates
\* of equal score are both returned
C2_Witness ==
    /\ Called /\ Len(response) >= 3
    /\ response[1] # generated[1]
    /\ \E i \in 1..(Len(response) - 1) :
          /\ response[i].total_score = response[i + 1].total_score
          /\ response[i] # response[i + 1]

\* C3: every candidate of either mode has total_score = 0.6*color_harmony_score
\* + 0.4*style score (to 2 decimals), each of the three in [0,100].
\* (Scores are in hundredths: 100 is 10000.)
C3_TotalScoreWeights ==
    Called =>
        \A i \in 1..Len(generated) :
            LET c == generated[i]
            IN  /\ 100 * c.total_score
                     = 60 * c.color_harmony_score + 40 * c.style_compatibility_score
                /\ c.color_harmony_score \in 0..10000
                /\ c.style_compatibility_score \in 0..10000
                /\ c.total_score \in 0..10000

\* a candidate whose harmony and style scores both lie strictly inside (0,100)
\* and differ
C3_Witness ==
    /\ Called
    /\ \E i \in 1..Len(generated) :
          /\ generated[i].color_harmony_score \in 1..9999
          /\ generated[i].style_compatibility_score \in 1..9999
          /\ generated[i].color_harmony_score # generated[i].style_compatibility_score

CountOf(category) ==
    Cardinality({ i \in 1..Len(all_items) : all_items[i].category = category })

RECURSIVE ProductOfCounts(_)
ProductOfCounts(pattern) ==
    IF pattern = <<>> THEN 1
    ELSE CountOf(Head(pattern)) * ProductOfCounts(Tail(pattern))

RECURSIVE SumOfProducts(_)
SumOfProducts(patterns) ==
    IF patterns = <<>> THEN 0
    ELSE ProductOfCounts(Head(patterns)) + SumOfProducts(Tail(patterns))

\* c is an element of the cartesian product of its pattern's categories
InProductOfPattern(c) ==
    /\ \E p \in 1..Len(OUTFIT_COMBINATIONS) : c.pattern = OUTFIT_COMBINATIONS[p]
    /\ Len(c.items) = Len(c.pattern)
    /\ \A i \in 1..Len(c.items) :
          /\ c.items[i] \in Range(all_items)
          /\ c.items[i].category = c.pattern[i]

OneTopOneBottom ==
    /\ Len(all_items) = 2
    /\ { all_items[i].category : i \in 1..2 } = {"top", "bottom"}

\* C4: in open mode with no colour scheme the candidates are exactly one per
\* element of the cartesian product of the categories' garment lists, for every
\* pattern whose categories are all present, and none for the other patterns
\* (every candidate is such an element, no two are equal, and their number is
\* the sum of the products' sizes); a closet of exactly one top and one bottom
\* yields the single candidate [top, bottom] with total_score
\* 0.6*harmonyScore + 0.4*styleScore of the two garments.
C4_OpenModeCartesian ==
    (OpenMode /\ request.color_scheme = None) =>
        /\ \A i \in 1..Len(generated) : InProductOfPattern(generated[i])
        /\ \A i \in 1..Len(generated) : \A j \in 1..Len(generated) :
              (generated[i].pattern = generated[j].pattern
                 /\ generated[i].items = generated[j].items) => i = j
        /\ Len(generated) = SumOfProducts(OUTFIT_COMBINATIONS)
        /\ OneTopOneBottom =>
              /\ Len(generated) = 1
              /\ generated[1].pattern = <<"top", "bottom">>
              /\ generated[1].items[1].category = "top"
              /\ generated[1].total_score
                   = 60 * harmony_of_colors(dominant_colors_of(all_items))
                     + 40 * check_style_compatibility(generated[1].items)

\* several patterns produce candidates, a product has more than one element,
\* and the patterns with a missing category produce none
C4_Witness ==
    /\ OpenMode /\ request.color_scheme = None
    /\ Len(generated) >= 6
    /\ \E i \in 1..Len(generated) : Len(generated[i].pattern) = 4
    /\ CountOf("dress") = 0 /\ CountOf("top") >= 2

\* the closet holds one bottom and one top, stored in that order
C4_WitnessOneTopOneBottom ==
    /\ OpenMode /\ request.color_scheme = None /\ request.items = None
    /\ OneTopOneBottom /\ all_items[1].category = "bottom"
    /\ Len(response) = 1 /\ response[1].total_score < 10000

(***************************************************************************)
(* Properties of the scoring methods (SpecStyle)                           *)
(***************************************************************************)
StyleCalled == scored.op = "check_style_compatibility"

StylesOf(items) == [i \in 1..Len(items) |-> items[i].style]

\* the six-entry compatibility table of the claim, as unordered pairs
CompatibilityTable ==
    { {"casual", "streetwear"}, {"formal", "business"}, {"evening", "formal"},
      {"bohemian", "casual"}, {"sporty", "casual"}, {"vintage", "bohemian"} }

AdjacentAdjust(a, b) ==
    IF a = b THEN 10 ELSE IF {a, b} \in CompatibilityTable THEN 5 ELSE -10

RECURSIVE SumAdjacent(_, _)
SumAdjacent(styles, n) ==
    IF n < 2 THEN 0
    ELSE SumAdjacent(styles, n - 1) + AdjacentAdjust(styles[n - 1], styles[n])

\* the score the claim states for a list of styles
StyleFormula(styles) ==
    IF \A i, j \in 1..Len(styles) : styles[i] = styles[j] THEN 100
    ELSE Clamp(50 + SumAdjacent(styles, Len(styles)), 0, 100)

\* C11 as stated, for every item list: 100 when all items share one style,
\* otherwise clamp(50 + sum over adjacent pairs of +10 / +5 / -10, 0, 100).
C11_StyleScoreEveryList ==
    StyleCalled => scored.score = StyleFormula(StylesOf(scored.items))

\* C11 amended: the same for every item list that is not empty, the pair
\* [casual, streetwear] scoring 55; the empty list scores 0.
C11_StyleScoreFormula ==
    StyleCalled =>
        /\ scored.items # <<>> => scored.score = StyleFormula(StylesOf(scored.items))
        /\ scored.items = <<>> => scored.score = 0
        /\ StylesOf(scored.items) = <<"casual", "streetwear">> => scored.score = 55

\* three items of which only the first two are compatible: 50 + 5 - 10
C11_Witness ==
    /\ StyleCalled
    /\ StylesOf(scored.items) = <<"streetwear", "casual", "formal">>
    /\ scored.score = 45

\* the lower clamp binds: seven items of alternating styles, 50 - 60
C11_WitnessClamp0 ==
    /\ StyleCalled /\ Len(scored.items) = 7 /\ scored.score = 0
    /\ 50 + SumAdjacent(StylesOf(scored.items), 7) < 0

OutfitScored == scored.op = "calculate_outfit_harmony"

WithColour(items) == SelectSeq(items, LAMBDA g : g.dominant_colors # <<>>)

DominantOf(items) == [i \in 1..Len(items) |-> items[i].dominant_colors[1]]

HasColourless(items) == \E i \in 1..Len(items) : items[i].dominant_colors = <<>>

\* C19: for an outfit with a garment that has no colours, the harmony score
\* is that of the dominant colours of the garments that have colours (100
\* when fewer than two have), the same as for the outfit without the
\* colourless garments, while the style score is the one of the styles of all
\* its garments in their positions.
C19_ColourlessGarment ==
    IF OutfitScored
      THEN HasColourless(scored.items) =>
             /\ scored.harmony_score =
                   (IF Len(WithColour(scored.items)) < 2 THEN 100
                    ELSE calculate_harmony_score(DominantOf(WithColour(scored.items))))
             /\ scored.harmony_score = calculate_outfit_harmony(WithColour(scored.items))
             /\ scored.style_score = StyleFormula(StylesOf(scored.items))
      ELSE TRUE

\* two coloured garments around a colourless one of another style: the
\* harmony is that of the two colours, below 100, and the style score is not
\* the one of the two coloured garments alone
C19_Witness ==
    IF OutfitScored
      THEN /\ Len(scored.items) = 3
           /\ scored.items[2].dominant_colors = <<>>
           /\ Len(WithColour(scored.items)) = 2
           /\ scored.harmony_score < 100
           /\ scored.style_score # check_style_compatibility(WithColour(scored.items))
      ELSE FALSE

\* C20: for a two-item list, check_style_compatibility gives the same score
\* in both orders (for three or more items the order can change the score).
C20_TwoItemsSymmetric ==
    IF scored.op = "check_style_compatibility twice"
      THEN Len(scored.items) = 2 => scored.swapped = scored.score
      ELSE TRUE

\* three items whose first two exchanged give another score: 50 + 5 + 10
\* against 50 + 5 + 5
C20_Witness ==
    IF scored.op = "check_style_compatibility twice"
      THEN /\ Len(scored.items) = 3
           /\ StylesOf(scored.items) = <<"streetwear", "casual", "casual">>
           /\ scored.score = 65 /\ scored.swapped = 60
      ELSE FALSE

\* two different styles of the table scored in both orders
C20_WitnessPair ==
    IF scored.op = "check_style_compatibility twice"
      THEN /\ StylesOf(scored.items) = <<"streetwear", "casual">>
           /\ scored.score = 55 /\ scored.swapped = 55
      ELSE FALSE

(***************************************************************************)
(* More properties of generate_outfit_suggestions (Spec)                   *)
(***************************************************************************)
\* the garment list of the call: the request's items, else the closet
GarmentsOf(req) ==
    IF req.items # None /\ req.items # <<>>
      THEN _convert_items_from_request(req.items) ELSE closet

HavingStyle(garments, style) ==
    SelectSeq(garments, LAMBDA g : g.style = style)

StyleFiltered == Called /\ request.style # None /\ GarmentsOf(request) # <<>>

\* C12 amended: with a style filter, generation uses only the garments of
\* that style if at least one garment has it and the full unfiltered list if
\* none has it, so the filter never leaves an empty garment set.
C12_StyleFilterFallback ==
    StyleFiltered =>
        /\ HavingStyle(GarmentsOf(request), request.style) # <<>>
              => all_items = HavingStyle(GarmentsOf(request), request.style)
        /\ HavingStyle(GarmentsOf(request), request.style) = <<>>
              => all_items = GarmentsOf(request)
        /\ all_items # <<>>

\* no garment has the style, the whole list is used and candidates result
C12_Witness ==
    /\ StyleFiltered
    /\ HavingStyle(GarmentsOf(request), request.style) = <<>>
    /\ all_items = GarmentsOf(request)
    /\ generated # <<>>

\* C12 as stated, its last part: in open mode a style filter alone never turns
\* a non-empty result into an empty one.
C12_StyleFilterKeepsResult ==
    (StyleFiltered /\ OpenMode) =>
        (suggestions_of(GarmentsOf(request), None, request.color_scheme) # <<>>
            => generated # <<>>)

(***************************************************************************)
(* Properties of colour extraction (SpecExtract)                           *)
(***************************************************************************)
Extracted ==
    /\ extraction.op \in {"extract_colors", "extract_colors_from_bytes"}
    /\ extraction.raised = None

LowerHexDigits == <<"0", "1", "2", "3", "4", "5", "6", "7", "8", "9",
                    "a", "b", "c", "d", "e", "f">>

IsLowerHexDigit(c) == \E v \in 1..16 : LowerHexDigits[v] = c

LowerHexValue(c) == (CHOOSE v \in 1..16 : LowerHexDigits[v] = c) - 1

\* hex is '#rrggbb', lowercase and zero-padded, of rgb
CanonicalHex(hex, rgb) ==
    /\ Len(hex) = 7 /\ hex[1] = "#"
    /\ \A i \in 2..7 : IsLowerHexDigit(hex[i])
    /\ \A k \in 1..3 :
          16 * LowerHexValue(hex[2 * k]) + LowerHexValue(hex[2 * k + 1]) = rgb[k]

\* C13: every colour list returned by extract_colors has length at most
\* numColors, is sorted by percentage descending, has every percentage in
\* [0,100] (kept in hundredths), and each hex is the lowercase zero-padded
\* '#rrggbb' encoding of the entry's rgb.
C13_ExtractedListShape ==
    Extracted =>
        /\ Len(extraction.colors) <= extraction.num_colors
        /\ \A i, j \in 1..Len(extraction.colors) :
              i < j => extraction.colors[i].percentage >= extraction.colors[j].percentage
        /\ \A i \in 1..Len(extraction.colors) :
              /\ extraction.colors[i].percentage >= 0
              /\ extraction.colors[i].percentage <= 10000
              /\ CanonicalHex(extraction.colors[i].hex, extraction.colors[i].rgb)

\* the palette had more entries than asked for, in ascending order of share
C13_Witness ==
    /\ Extracted
    /\ Len(extraction.filtered_palette) > extraction.num_colors
    /\ Len(extraction.colors) = 2
    /\ extraction.colors[1].percentage > extraction.colors[2].percentage
    /\ extraction.colors[2].percentage > 0
    /\ extraction.colors[1].rgb # extraction.filtered_palette[1]
    /\ extraction.colors[1].hex = <<"#", "0", "0", "0", "0", "f", "f">>

RECURSIVE SumOf(_)
SumOf(counts) == IF counts = <<>> THEN 0 ELSE Head(counts) + SumOf(Tail(counts))

\* the pixels of the list whose nearest palette entry, the first of the
\* nearest ones, is entry idx
NearestTo(pixels, palette, idx) ==
    SumOf([k \in 1..Len(pixels) |->
             IF /\ \A j \in 1..Len(palette) :
                      color_distance(pixels[k][1], palette[idx])
                        <= color_distance(pixels[k][1], palette[j])
                /\ \A j \in 1..(idx - 1) :
                      color_distance(pixels[k][1], palette[idx])
                        < color_distance(pixels[k][1], palette[j])
               THEN pixels[k][2] ELSE 0])

ExtractedWithPixels == IF Extracted THEN extraction.valid_pixels # <<>> ELSE FALSE

\* C21: when pixels survived the background filter, every one of them is
\* counted once, for its nearest palette entry, and the percentages divide by
\* the number of surviving pixels, whatever the square reshaping did; so the
\* counts sum to the number of surviving pixels.
C21_EverySurvivorCounted ==
    ExtractedWithPixels =>
        /\ extraction.total_pixels = pixel_count(extraction.valid_pixels)
        /\ \A idx \in 1..Len(extraction.filtered_palette) :
              extraction.color_counts[idx] =
                NearestTo(extraction.valid_pixels, extraction.filtered_palette, idx)
        /\ SumOf(extraction.color_counts) = pixel_count(extraction.valid_pixels)

\* (what holds: the pixels counted are those of valid_pixels as the square
\* reshaping left it, each once and for its nearest entry)
C21_ReshapedPixelsCounted ==
    ExtractedWithPixels =>
        /\ extraction.total_pixels = pixel_count(extraction.counted)
        /\ \A idx \in 1..Len(extraction.filtered_palette) :
              extraction.color_counts[idx] =
                NearestTo(extraction.counted, extraction.filtered_palette, idx)
        /\ SumOf(extraction.color_counts) = pixel_count(extraction.counted)
        /\ pixel_count(extraction.counted) <= pixel_count(extraction.valid_pixels)

\* (the reshaping changes a percentage: 4100 red and 6000 blue pixels
\* survive, 100 blue ones are cut off and red gets 41% instead of 40.59%)
C21_PercentageOfSurvivors ==
    ExtractedWithPixels =>
        \A i \in 1..Len(extraction.colors) :
           \A idx \in 1..Len(extraction.filtered_palette) :
              (extraction.filtered_palette = <<Red, Blue>>
               /\ extraction.colors[i].rgb = extraction.filtered_palette[idx])
                 => extraction.colors[i].percentage \in
                      percentage_of(NearestTo(extraction.valid_pixels,
                                              extraction.filtered_palette, idx),
                                    pixel_count(extraction.valid_pixels))

NotBackground(palette) == SelectSeq(palette, LAMBDA c : ~_is_background_color(c))

\* C22: the palette used is the clustered palette without its background
\* entries, or the whole clustered palette when all its entries are
\* background; so a non-empty clustered palette and num_colors >= 1 give a
\* non-empty list.
C22_PaletteFilterFallback ==
    Extracted =>
        /\ NotBackground(extraction.palette) # <<>>
              => extraction.filtered_palette = NotBackground(extraction.palette)
        /\ NotBackground(extraction.palette) = <<>>
              => extraction.filtered_palette = extraction.palette
        /\ (extraction.palette # <<>> /\ extraction.num_colors >= 1)
              => extraction.colors # <<>>

\* a palette of background colours only is kept whole and gives a list
C22_Witness ==
    /\ Extracted
    /\ Len(extraction.palette) = 2
    /\ NotBackground(extraction.palette) = <<>>
    /\ extraction.filtered_palette = extraction.palette
    /\ extraction.colors # <<>>

\* a palette with a background entry among others loses it
C22_WitnessFiltered ==
    /\ Extracted
    /\ extraction.palette = <<White, Red>>
    /\ extraction.filtered_palette = <<Red>>
    /\ Len(extraction.colors) = 1

\* the pixels of the image in its own size that a background filter keeps
UncappedSurvivors(image) ==
    SelectSeq(image.original,
              LAMBDA run : /\ run[1][4] >= AlphaCutoff
                           /\ ~_is_background_color(<<run[1][1], run[1][2], run[1][3]>>))

FewSurvive ==
    IF Extracted
      THEN pixel_count(extraction.valid_pixels) < MinValidPixels
      ELSE FALSE

\* C23 as stated: when fewer than 100 pixels survive the 150 x 150 filter,
\* the whole unfiltered image is clustered only if fewer than 100 pixels
\* survive a filter of the image without the 150 x 150 cap as well.
C23_RetriesWithoutCap ==
    FewSurvive =>
        (extraction.clustered_image.source = "image_path"
           => pixel_count(UncappedSurvivors(extraction.image)) < MinValidPixels)

\* C23 amended: when fewer than 100 pixels survive the 150 x 150 filter, the
\* whole unfiltered image is clustered at once, however many pixels a filter
\* without the cap would keep; with 100 or more the square of the surviving
\* pixels is clustered.
C23_ClustersWholeImage ==
    Extracted =>
        /\ pixel_count(extraction.valid_pixels) < MinValidPixels
              => /\ extraction.clustered_image.source = "image_path"
                 /\ extraction.clustered_image.pixels = extraction.image.original
        /\ pixel_count(extraction.valid_pixels) >= MinValidPixels
              => /\ extraction.clustered_image.source = "temp_img"
                 /\ extraction.clustered_image.pixels = extraction.counted

\* 94 pixels survive in 150 x 150, 1500 would in the image's own size, and
\* the whole image is clustered
C23_Witness ==
    IF FewSurvive
      THEN /\ pixel_count(extraction.valid_pixels) = 94
           /\ pixel_count(UncappedSurvivors(extraction.image)) = 1500
           /\ extraction.clustered_image.source = "image_path"
           /\ extraction.colors # <<>>
      ELSE FALSE

ExtractionFailed(e) == IF e.op = "none" THEN FALSE ELSE e.raised # None

\* C14: an unreadable image and any other internal failure are distinct error
\* outcomes for the caller, for extract_colors and for
\* extract_colors_from_bytes alike: a call that fails on an unreadable image
\* and a call of the same function that fails otherwise raise different
\* errors, the second carrying its cause.
C14_FailureKindsDistinct ==
    [][ (/\ ExtractionFailed(extraction) /\ ExtractionFailed(extraction')
         /\ extraction.op = extraction'.op
         /\ ~extraction.readable /\ extraction'.readable)
        => (/\ extraction.raised # extraction'.raised
            /\ extraction'.cause # None) ]_vars

\* the same for extract_colors_from_bytes alone, where it holds
C14_FromBytesKindsDistinct ==
    [][ (/\ ExtractionFailed(extraction) /\ ExtractionFailed(extraction')
         /\ extraction.op = "extract_colors_from_bytes"
         /\ extraction'.op = "extract_colors_from_bytes"
         /\ ~extraction.readable /\ extraction'.readable)
        => (/\ extraction.raised # extraction'.raised
            /\ extraction'.cause # None) ]_vars
\* a call in base-item mode that found its base item
BaseFound ==
    IF Called
      THEN /\ request.base_item_id # None
           /\ \E i \in 1..Len(all_items) : all_items[i].id = request.base_item_id
      ELSE FALSE

BaseItem ==
    all_items[CHOOSE i \in 1..Len(all_items) :
                /\ all_items[i].id = request.base_item_id
                /\ \A j \in 1..(i - 1) : all_items[j].id # request.base_item_id]

OfCategory(cat) ==
    { all_items[i] : i \in { j \in 1..Len(all_items) : all_items[j].category = cat } }

OtherCategories(pattern) ==
    SelectSeq(pattern, LAMBDA c : c # BaseItem.category)

Narrowing == request.color_scheme # None /\ BaseItem.dominant_colors # <<>>

MatchesBase(g) ==
    IF g.dominant_colors = <<>> THEN FALSE
    ELSE colors_match(BaseItem.dominant_colors[1], g.dominant_colors[1],
                      request.color_scheme, DefaultTolerance)

NarrowedTo(cat) == { g \in OfCategory(cat) : MatchesBase(g) }

OptionsOf(cat) ==
    IF Narrowing
      THEN (IF NarrowedTo(cat) # {} THEN NarrowedTo(cat) ELSE OfCategory(cat))
      ELSE OfCategory(cat)

Eligible(pattern) ==
    /\ BaseItem.category \in Range(pattern)
    /\ \A c \in Range(OtherCategories(pattern)) : OfCategory(c) # {}

\* the tuples with one element of every set, in the order of the sets
RECURSIVE TuplesOver(_)
TuplesOver(sets) ==
    IF sets = <<>> THEN { <<>> }
    ELSE { <<a>> \o t : a \in Head(sets), t \in TuplesOver(Tail(sets)) }

CandidatesOf(pattern) ==
    LET others == OtherCategories(pattern)
    IN  { <<BaseItem>> \o t :
            t \in TuplesOver([i \in 1..Len(others) |-> OptionsOf(others[i])]) }

GeneratedFor(pattern) ==
    SelectSeq(generated, LAMBDA s : s.pattern = pattern)

\* C17: in base-item mode, for every pattern that contains the base item's
\* category and whose other categories all have garments, the candidates are
\* exactly the tuples made of the base item followed by one option of every
\* other category, the options of a category being its garments that match
\* the base's dominant colour when a scheme is given and the base has a
\* colour, or all its garments when none matches; other patterns give none.
C17_BaseCandidates ==
    BaseFound =>
      \A p \in Range(OUTFIT_COMBINATIONS) :
         IF Eligible(p)
           THEN /\ { GeneratedFor(p)[k].items : k \in 1..Len(GeneratedFor(p)) }
                     = CandidatesOf(p)
                /\ Len(GeneratedFor(p)) = Cardinality(CandidatesOf(p))
           ELSE GeneratedFor(p) = <<>>

\* a base-item call where one category is narrowed to fewer garments, another
\* keeps all its garments because none matches, and candidates come out
C17_Witness ==
    IF BaseFound
      THEN /\ Narrowing
           /\ \E p \in Range(OUTFIT_COMBINATIONS) :
                 /\ Eligible(p)
                 /\ GeneratedFor(p) # <<>>
                 /\ \E c \in Range(OtherCategories(p)) :
                       NarrowedTo(c) # {} /\ NarrowedTo(c) # OfCategory(c)
                 /\ \E c \in Range(OtherCategories(p)) :
                       NarrowedTo(c) = {} /\ Cardinality(OfCategory(c)) >= 1
      ELSE FALSE

\* a call in open mode with a colour scheme
OpenWithScheme ==
    IF Called
      THEN request.base_item_id = None /\ request.color_scheme # None
      ELSE FALSE

\* the candidate tuples of a pattern: one garment of every category
OpenCandidates(pattern) ==
    TuplesOver([i \in 1..Len(pattern) |-> OfCategory(pattern[i])])

KeptOf(pattern) ==
    { GeneratedFor(pattern)[k].items : k \in 1..Len(GeneratedFor(pattern)) }

Coloured(g) == g.dominant_colors # <<>>

SchemeMatch(g1, g2) ==
    colors_match(g1.dominant_colors[1], g2.dominant_colors[1],
                 request.color_scheme, DefaultTolerance)

\* the first two garments of the tuple that have a colour do not match
FirstTwoColouredClash(t) ==
    LET coloured == SelectSeq(t, Coloured)
    IN  IF Len(coloured) >= 2 THEN ~SchemeMatch(coloured[1], coloured[2]) ELSE FALSE

\* C18 as stated: in open mode with a scheme, a tuple whose first two items
\* have colours is kept exactly when those colours match, and two tuples
\* with the same first two items are kept or discarded together (the colours
\* of later items do not matter).
C18_FirstTwoPositions ==
    OpenWithScheme =>
      \A p \in Range(OUTFIT_COMBINATIONS) :
        \A t \in OpenCandidates(p) :
          Len(t) >= 2 =>
            /\ (Coloured(t[1]) /\ Coloured(t[2]))
                  => (t \in KeptOf(p) <=> SchemeMatch(t[1], t[2]))
            /\ \A u \in OpenCandidates(p) :
                  (u[1] = t[1] /\ u[2] = t[2])
                    => (t \in KeptOf(p) <=> u \in KeptOf(p))

\* C18 amended: in open mode with a scheme, a candidate tuple is discarded
\* exactly when at least two of its items have a dominant colour and the
\* colours of the first two such items, in tuple order, do not match; the
\* kept tuples appear once each.
C18_FirstTwoColoured ==
    OpenWithScheme =>
      \A p \in Range(OUTFIT_COMBINATIONS) :
        /\ KeptOf(p) = { t \in OpenCandidates(p) : ~FirstTwoColouredClash(t) }
        /\ Len(GeneratedFor(p)) = Cardinality(KeptOf(p))

\* a tuple whose first item has no colour is discarded for the colours of its
\* second and third items, and another tuple of the pattern is kept
C18_Witness ==
    IF OpenWithScheme
      THEN \E p \in Range(OUTFIT_COMBINATIONS) :
             /\ \E t \in OpenCandidates(p) :
                   /\ ~Coloured(t[1])
                   /\ FirstTwoColouredClash(t)
                   /\ t \notin KeptOf(p)
             /\ KeptOf(p) # {}
      ELSE FALSE

(***************************************************************************)
(* Properties of the endpoints (SpecApi)                                   *)
(***************************************************************************)
HexChars ==
    { "0", "1", "2", "3", "4", "5", "6", "7", "8", "9",
      "a", "b", "c", "d", "e", "f", "A", "B", "C", "D", "E", "F" }

\* after an optional leading '#', exactly 6 hexadecimal digits
SixHexDigits(text) ==
    LET body == IF text # <<>> /\ Head(text) = "#" THEN Tail(text) ELSE text
    IN  Len(body) = 6 /\ \A i \in 1..6 : body[i] \in HexChars

InvalidColorError(answer) ==
    IF answer.status = 400
      THEN answer.detail[1] \in {"Invalid hex color", "Invalid hex color: "}
      ELSE FALSE

HarmonyAsked == http.op = "GET /colors/harmony/{scheme}"

ScoreAsked ==
    IF http.op = "POST /colors/harmony/score" THEN Len(http.colors) >= 2 ELSE FALSE

\* C15: the harmony endpoint and the score endpoint answer with the
\* invalid-colour error exactly when a colour they are given is not, after an
\* optional leading '#', a string of exactly 6 hexadecimal digits.
C15_OnlySixHexDigitsAccepted ==
    /\ HarmonyAsked =>
          (InvalidColorError(http.response) <=> ~SixHexDigits(http.hex_color))
    /\ ScoreAsked =>
          (InvalidColorError(http.response) <=>
             \E i \in 1..Len(http.colors) : ~SixHexDigits(http.colors[i]))

\* (the half that holds: six hexadecimal digits are never refused)
C15_SixHexDigitsAccepted ==
    /\ HarmonyAsked =>
          (SixHexDigits(http.hex_color) => ~InvalidColorError(http.response))
    /\ ScoreAsked =>
          ((\A i \in 1..Len(http.colors) : SixHexDigits(http.colors[i]))
             => ~InvalidColorError(http.response))

SchemeRefused(answer) ==
    IF answer.status = 400
      THEN answer.detail[1] = "Invalid scheme. Use: complementary, analogous, or triadic"
      ELSE FALSE

\* a harmony request whose colour was taken
HarmonyAskedOfColor ==
    IF HarmonyAsked THEN ~InvalidColorError(http.response) ELSE FALSE

SuggestAskedWithScheme ==
    IF http.op = "POST /outfits/suggest" THEN http.scheme # None ELSE FALSE

\* C16: the harmony endpoint and the outfit-suggestion endpoint refuse a
\* request exactly when its scheme name is outside {complementary, analogous,
\* triadic, monochromatic}.
C16_SchemeNamesChecked ==
    /\ HarmonyAskedOfColor =>
          (SchemeRefused(http.response) <=> http.scheme \notin Schemes)
    /\ SuggestAskedWithScheme =>
          (http.response.status # 200 <=> http.scheme \notin Schemes)

\* (the half that holds: the harmony endpoint refuses every name outside the
\* set)
C16_HarmonyRefusesUnknown ==
    HarmonyAskedOfColor =>
        (http.scheme \notin Schemes => SchemeRefused(http.response))

\* (the two ways the code departs from it, each on its own)
C16_HarmonyTakesMonochromatic ==
    HarmonyAskedOfColor =>
        (http.scheme = "monochromatic" => ~SchemeRefused(http.response))

C16_SuggestRefusesUnknown ==
    SuggestAskedWithScheme =>
        (http.scheme \notin Schemes => http.response.status # 200)

(***************************************************************************)
(* Properties of get_color_name (SpecName)                                 *)
(***************************************************************************)
Returned(t) == lookups[t].pc = "returned"

\* the first entry of EXTENDED_COLORS among those nearest to rgb
FirstNearest(rgb) ==
    CHOOSE i \in 1..Len(EXTENDED_COLORS) :
       /\ \A j \in 1..Len(EXTENDED_COLORS) :
             color_distance(rgb, EXTENDED_COLORS[i][1])
                <= color_distance(rgb, EXTENDED_COLORS[j][1])
       /\ \A j \in 1..(i - 1) :
             color_distance(rgb, EXTENDED_COLORS[j][1])
                > color_distance(rgb, EXTENDED_COLORS[i][1])

\* the first of the nearest entries for each colour asked
FirstNearestOf == [rgb \in NamedInputs |-> FirstNearest(rgb)]

\* the entries of EXTENDED_COLORS nearest to rgb
NearestEntries(rgb) ==
    { i \in 1..Len(EXTENDED_COLORS) :
        color_distance(rgb, EXTENDED_COLORS[i][1])
           = color_distance(rgb, EXTENDED_COLORS[FirstNearest(rgb)][1]) }

\* C24: for a colour that is no exact CSS3 colour, get_color_name returns the
\* name of the EXTENDED_COLORS entry at the least color_distance, and of several
\* such entries the one that comes first in the table.
C24_NearestFirstInTable ==
    \A t \in Callers :
       (Returned(t) /\ rgb_to_name(lookups[t].rgb).raised)
          => lookups[t].name = EXTENDED_COLORS[FirstNearestOf[lookups[t].rgb]][2]

\* a colour with two nearest entries has been named after the earlier one
C24_Witness ==
    \E t \in Callers :
       /\ Returned(t)
       /\ rgb_to_name(lookups[t].rgb).raised
       /\ Cardinality(NearestEntries(lookups[t].rgb)) >= 2
       /\ lookups[t].name = "green"

\* the names a lookup without the cache finds for the colours asked
UncachedName == [rgb \in NamedInputs |-> name_to_store(rgb)]

\* every cached name is the name a lookup without the cache finds
CacheSound ==
    \A k \in DOMAIN color_cache : color_cache[k] = UncachedName[k]

\* every call that returned left its key in the cache, and returned the name
\* a lookup without the cache finds
ReturnedSound ==
    \A t \in Callers :
       Returned(t) => /\ lookups[t].rgb \in DOMAIN color_cache
                      /\ lookups[t].name = color_cache[lookups[t].rgb]
                      /\ lookups[t].name = UncachedName[lookups[t].rgb]

\* C25: however the calls of get_color_name on the shared service interleave,
\* no step removes a key of the cache or changes its name, every cached name
\* is what a lookup without the cache computes, and every call that returned
\* has its key in the cache and the same name for the same colour.
C25_CacheAppendOnly ==
    [][ /\ \A k \in DOMAIN color_cache :
             k \in DOMAIN color_cache' /\ color_cache'[k] = color_cache[k]
        /\ CacheSound'
        /\ ReturnedSound' ]_vars

\* a caller that missed the cache is about to store a colour that another
\* caller has stored and returned meanwhile, with other colours cached too
C25_Witness ==
    \E t, u \in Callers :
       /\ Returned(t)
       /\ lookups[u].pc = "missed"
       /\ lookups[u].rgb = lookups[t].rgb
       /\ lookups[t].rgb \in DOMAIN color_cache
       /\ Cardinality(DOMAIN color_cache) >= 2

(***************************************************************************)
(* Properties of the two generation modes (Spec)                           *)
(***************************************************************************)
\* the garments of the call before the style filter
InputGarments == items_in_use(request.items, closet, None)

IdsOf(garments) == { garments[i].id : i \in 1..Len(garments) }

BaseAsked == IF Called THEN request.base_item_id # None ELSE FALSE

\* C26: in base-item mode the base item is looked up among the garments that
\* remain after the style filter: a call whose baseItemId is the id of none
\* of them generates and returns nothing, also when the garment is in the
\* input, whatever open mode would give; a base item that is found is one
\* of the remaining garments.
C26_BaseAmongFiltered ==
    BaseAsked =>
       IF request.base_item_id \in IdsOf(all_items)
         THEN \A k \in 1..Len(generated) :
                 /\ generated[k].items[1].id = request.base_item_id
                 /\ generated[k].items[1] \in Range(all_items)
         ELSE generated = <<>> /\ response = <<>>

\* the base garment is in the input, the style filter that other garments
\* pass removed it, and open mode on what remains would give suggestions
C26_Witness ==
    /\ BaseAsked
    /\ request.base_item_id \in IdsOf(InputGarments)
    /\ request.base_item_id \notin IdsOf(all_items)
    /\ Len(all_items) < Len(InputGarments)
    /\ _generate_all_combinations(group_by_category(all_items),
                                  request.color_scheme) # <<>>
    /\ response = <<>>

CategoriesOf(outfit_items) ==
    { outfit_items[i].category : i \in 1..Len(outfit_items) }

\* C27: in every candidate of either mode the items have pairwise distinct
\* categories, which are exactly the categories of the candidate's pattern,
\* one of OUTFIT_COMBINATIONS; in open mode item i has the category
\* pattern[i], and in base-item mode the base item is the first item.
C27_CategoriesOfPattern ==
    Called =>
      \A k \in 1..Len(generated) :
         LET outfit_items == generated[k].items
             pattern == generated[k].pattern
         IN  /\ pattern \in Range(OUTFIT_COMBINATIONS)
             /\ Len(outfit_items) = Len(pattern)
             /\ \A i, j \in 1..Len(outfit_items) :
                   i # j => outfit_items[i].category # outfit_items[j].category
             /\ CategoriesOf(outfit_items) = Range(pattern)
             /\ "accessory" \notin CategoriesOf(outfit_items)
             /\ IF request.base_item_id = None
                   THEN \A i \in 1..Len(pattern) :
                           outfit_items[i].category = pattern[i]
                   ELSE outfit_items[1].id = request.base_item_id

\* a base-item call with a candidate of three items whose base item is
\* first though its category is not the first of the pattern
C27_Witness ==
    /\ BaseAsked
    /\ \E k \in 1..Len(generated) :
          /\ Len(generated[k].items) >= 3
          /\ generated[k].items[1].id = request.base_item_id
          /\ generated[k].items[1].category # generated[k].pattern[1]

\* an open-mode call with candidates of two patterns
C27_WitnessOpen ==
    /\ OpenMode
    /\ \E k, l \in 1..Len(generated) : generated[k].pattern # generated[l].pattern

(***************************************************************************)
(* Order of the colour list of calculate_harmony_score (SpecColor)         *)
(***************************************************************************)
\* the orders of n positions, for the lists of up to MaxColors colours
Orders ==
    [n \in 0..MaxColors |->
        { order \in [1..n -> 1..n] :
            \A i, j \in 1..n : i # j => order[i] # order[j] }]

InOrder(cs, order) == [i \in 1..Len(cs) |-> cs[order[i]]]

\* the list with the colours of positions i and j exchanged
Exchanged(cs, i, j) ==
    [k \in 1..Len(cs) |-> IF k = i THEN cs[j] ELSE IF k = j THEN cs[i] ELSE cs[k]]

HarmonyScored == out.op = "calculate_harmony_score"

\* C28: calculate_harmony_score gives the same score for a colour list in
\* any order: for every order of a list of up to MaxColors colours, and for
\* every exchange of two colours of a longer list (the exchanges make up
\* every order, and the lists called are all the lists over their colours).
C28_ScoreOfAnyOrder ==
    HarmonyScored =>
       /\ Len(colors) <= MaxColors =>
             \A order \in Orders[Len(colors)] :
                calculate_harmony_score(InOrder(colors, order)) = out.score
       /\ Len(colors) > MaxColors =>
             \A i, j \in 1..Len(colors) :
                i < j => calculate_harmony_score(Exchanged(colors, i, j)) = out.score

\* three colours whose pairs count differently, with a score the limits of 0
\* and 100 do not hide
C28_Witness ==
    /\ HarmonyScored
    /\ Len(colors) = 3
    /\ out.score > 0 /\ out.score < 100
    /\ pair_adjust(hue_diff(rgb_to_hsl(colors[1])[1], rgb_to_hsl(colors[2])[1]))
          # pair_adjust(hue_diff(rgb_to_hsl(colors[2])[1], rgb_to_hsl(colors[3])[1]))

(***************************************************************************)
(* Properties of POST /closet (SpecUpload)                                 *)
(***************************************************************************)
UploadSaved == IF http.op = "POST /closet" THEN http.pc = "saved" ELSE FALSE

AnalysisFailed == IF extraction.op = "none" THEN FALSE ELSE extraction.raised # None

\* the files that the items of a closet point to
FilesOf(data) == { data[i].image_path : i \in 1..Len(data) }

\* C29: the write of the uploaded file adds one new file and no record; when
\* the colour extraction that follows fails, that file is removed and no
\* record is added, so the closet and the uploads directory are as they were
\* before the request; and a record is added only by the step in which the
\* extraction of its file succeeded, with the colours extracted.
C29_FailedUploadLeavesNothing ==
    [][ /\ UploadSaved' =>
             /\ closet' = closet
             /\ http'.file_path \notin uploads
             /\ uploads' = uploads \cup {http'.file_path}
        /\ (UploadSaved /\ AnalysisFailed') =>
             /\ closet' = closet
             /\ uploads' = uploads \ {http.file_path}
             /\ http'.response.status = 500
        /\ closet' # closet =>
             /\ UploadSaved
             /\ ~AnalysisFailed'
             /\ extraction'.image = http.image
             /\ Len(closet') = Len(closet) + 1
             /\ SubSeq(closet', 1, Len(closet)) = closet
             /\ closet'[Len(closet')].image_path = http.file_path
             /\ closet'[Len(closet')].dominant_colors
                   = [i \in 1..Len(extraction'.colors) |-> extraction'.colors[i].rgb]
             /\ uploads' = uploads ]_vars

\* after a failed upload nothing is left of it, next to an item stored before
C29_Witness ==
    /\ http.op = "POST /closet"
    /\ AnalysisFailed
    /\ IF http.pc = "done" /\ "file_path" \in DOMAIN http
         THEN /\ http.response.status = 500
              /\ http.file_path \notin uploads
              /\ http.file_path \notin FilesOf(closet)
         ELSE FALSE
    /\ Len(closet) = 1
    /\ uploads = FilesOf(closet)

====
